---- MODULE Spec2Model ----
(***************************************************************************)
(* flowscript: the parallel bytecode VM (src/flowrun/vm.py, ParallelVM),   *)
(* the compiler front end that produces its bytecode (src/flowc) and the   *)
(* command sandbox it runs the steps in (src/flowrun/executor.py).         *)
(*                                                                         *)
(* Step names are the integers 1..NSteps; their numeric order stands for   *)
(* the lexicographic order Python's sorted() puts on the names.            *)
(* One scheduler thread runs ParallelVM.execute; every submitted step is a *)
(* work item of a ThreadPoolExecutor with max_workers threads and runs     *)
(* ParallelVM._execute_step.  The sandbox (run_cmd_sandbox) is seen by the  *)
(* VM only through its boolean result, so each invocation returns either   *)
(* TRUE or FALSE.  The external cancel signal is a one-shot flag that the  *)
(* embedder may set at any moment.                                         *)
(***************************************************************************)
EXTENDS Integers, Sequences, FiniteSets, TLC

\* ------------------------------------------------------------------ bounds
NSteps == 3
MaxRetries == 1
MaxWorkers == 2

\* the names the input workflows are made of
AllSteps == 1..NSteps

\* on_error = None in the bytecode, and the notifier names it may carry
NoHandler == "None"
Handlers == {"notify_ops"}

VARIABLES
    bytecode,        \* [step -> [depends_on, retries, on_error]], unique step names
    notify_map,      \* the declared notifier names (keys of self.notify_map)
    max_workers,     \* self.max_workers
    cancel_event,    \* the external threading.Event, TRUE once set
    pc,              \* position of the scheduler thread inside execute()
    snap,            \* futures of the current as_completed() call not yet yielded
    completed,       \* self.completed
    failed,          \* self.failed
    running_futures, \* self.running_futures, by step name
    cancelled,       \* self.cancelled (the abort flag)
    adj,             \* self.adj
    indeg,           \* self.indeg
    fut,             \* state of the Future of each step
    fresult,         \* value returned by _execute_step, once the Future is FINISHED
    queue,           \* work items of the pool not yet started, in submission order
    wpc,             \* position of the worker of each step inside _execute_step
    attempt,         \* loop variable `attempt` of _execute_step
    calls,           \* number of run_cmd_sandbox invocations per step
    outcomes,        \* the values run_cmd_sandbox returned per step, in order
    events,          \* status_callback invocations per step, in order
    submits,         \* number of ex.submit calls per step
    dispatched,      \* _emit_notify invocations <<notify_name, failed_step>>, in order
    log,             \* lines of notifications.log
    result,          \* value returned by execute()
    exitAt           \* source line of the return statement execute() left through

vmVars == <<bytecode, notify_map, max_workers, cancel_event, pc, snap,
            completed, failed, running_futures, cancelled, adj, indeg, fut,
            fresult, queue, wpc, attempt, calls, outcomes, events, submits,
            dispatched, log, result, exitAt>>

inputVars == <<bytecode, notify_map, max_workers>>

\* self.steps_set: the names of the steps of the bytecode
Steps == DOMAIN bytecode

\* ---- the compiler: semantic_check, workflow_to_ir, emit_bytecode, and the
\* ---- loading of what it wrote
VARIABLES
    workflow,        \* the parsed Workflow: [name, steps, notifies]
    cpc,             \* how far the workflow has come through the pipeline
    order,           \* the order semantic_check returned
    error,           \* the SemanticError semantic_check raised, NoError if none
    ir,              \* workflow_to_ir(workflow)
    file,            \* the JSON document emit_bytecode wrote
    loaded,          \* ParallelVM.__init__ on load_bytecode(file)
    graph            \* ParallelVM._build_graph on the loaded steps

compilerVars == <<workflow, cpc, order, error, ir, file, loaded, graph>>

\* ---- the command sandbox: run_cmd_sandbox and _monitor_and_enforce
VARIABLES
    timeout,         \* the timeout argument, in poll intervals, or NoLimit
    mem_limit_mb,    \* the mem_limit_mb argument, or NoLimit
    psutil,          \* whether the psutil module could be imported
    p,               \* whether psutil.Process(proc.pid) gave a wrapper
    proc,            \* the child process: "none", "running" or "exited"
    returncode,      \* its exit status once it has exited
    rss,             \* resident set size of the process tree, in bytes
    now,             \* time.time() - start, in poll intervals
    spc,             \* position of the supervisor
    ticks,           \* iterations of the monitoring loop begun so far
    kills,           \* the kill requests made, each with its reason
    success,         \* the value returned, once spc = "returned"
    exited_at,       \* the time at which the child ended by itself
    peak_rss         \* the largest resident size the tree has had

sandboxVars == <<timeout, mem_limit_mb, psutil, p, proc, returncode, rss, now,
                 spc, ticks, kills, success, exited_at, peak_rss>>

\* ---- Notifier Dispatch on its own: ParallelVM._emit_notify
VARIABLES
    notifies_raw,        \* self.notifies_raw: the notify dicts of the bytecode
    notifications_log,   \* the texts written to notifications.log, in order
    dispatches           \* the _emit_notify calls made, in order

notifierVars == <<notifies_raw, notifications_log, dispatches>>

\* ---- the command line: the __main__ block of cli.py
VARIABLES
    argv,            \* sys.argv[1:]
    cli_pc,          \* position of the script
    cli_ok,          \* the value execute() returned (ok), "unset" before
    exit_code        \* the exit status of the process

cliVars == <<argv, cli_pc, cli_ok, exit_code>>

\* ---- the threads of ParallelVM.execute, statement by statement
VARIABLES
    lock,            \* self.lock: "free" or the thread that holds it
    sched_at,        \* the line of execute() the scheduler thread is at
    thread_at,       \* the line of _execute_step each pool thread is at
    work_items,      \* work items submitted to the pool and not yet taken
    writes           \* the writes made so far: thread, field, lock held

lockVars == <<lock, sched_at, thread_at, work_items, writes>>

\* ---- the sequential Runtime: Runtime.execute on the IR do_run hands it
VARIABLES
    ordered_ir,      \* self.ir: the instructions in the order of the caller
    run_state,       \* self.state: step name -> "PENDING", "OK" or "FAILED"
    run_at,          \* position inside execute()
    instr_no,        \* index in self.ir of instr, 0 before the first
    attempts_made,   \* attempts of the current instruction so far
    last_ok,         \* the local ok
    sandbox_runs,    \* step name -> number of run_cmd_sandbox calls made
    returned         \* "True" or "False" as execute() returned, "unset" before

sequentialVars == <<ordered_ir, run_state, run_at, instr_no, attempts_made,
                    last_ok, sandbox_runs, returned>>

restVars == <<notifierVars, cliVars, lockVars, sequentialVars>>

exceptNotifier == <<vmVars, compilerVars, sandboxVars, cliVars, lockVars,
                    sequentialVars>>

exceptCli == <<vmVars, compilerVars, sandboxVars, notifierVars, lockVars,
               sequentialVars>>

exceptLock == <<vmVars, compilerVars, sandboxVars, notifierVars, cliVars,
                sequentialVars>>

exceptSequential == <<vmVars, compilerVars, sandboxVars, notifierVars,
                      cliVars, lockVars>>

otherVars == <<compilerVars, sandboxVars, restVars>>

vars == <<vmVars, compilerVars, sandboxVars, restVars>>
schedVars == <<pc, snap, completed, failed, running_futures, cancelled, adj,
               indeg, result, exitAt>>
notifyVars == <<dispatched, log>>
workerVars == <<wpc, attempt, calls, outcomes>>

\* ----------------------------------------------------------------- helpers
Range(q) == {q[i] : i \in DOMAIN q}

Occurrences(q, x) == Cardinality({i \in DOMAIN q : q[i] = x})

RemoveAt(q, i) == [j \in 1..(Len(q) - 1) |-> IF j < i THEN q[j] ELSE q[j + 1]]

Remove(q, x) == SelectSeq(q, LAMBDA y : y # x)

MinOf(S) == CHOOSE m \in S : \A x \in S : m <= x

\* Python's sorted() on a list of names
RECURSIVE sorted(_)
sorted(q) ==
    IF q = <<>> THEN <<>>
    ELSE LET m == MinOf(Range(q))
             i == CHOOSE j \in DOMAIN q : q[j] = m
         IN <<m>> \o sorted(RemoveAt(q, i))

\* a set as a sorted list
RECURSIVE SetToSeq(_)
SetToSeq(S) ==
    IF S = {} THEN <<>>
    ELSE LET m == MinOf(S) IN <<m>> \o SetToSeq(S \ {m})

Position(q, x) == CHOOSE i \in DOMAIN q : q[i] = x

\* ------------------------------------------------------ the input workflows
DependsOn(bc, s) == Range(bc[s].depends_on)

RECURSIVE Closure(_, _, _)
Closure(bc, S, k) ==
    IF k = 0 THEN S
    ELSE Closure(bc, S \cup UNION {DependsOn(bc, x) \cap DOMAIN bc : x \in S}, k - 1)

\* every step d that s depends on, directly or through other steps
TransitiveDeps(bc, s) == Closure(bc, DependsOn(bc, s) \cap DOMAIN bc, Len(bc))

Resolved(bc) == \A s \in DOMAIN bc : DependsOn(bc, s) \subseteq DOMAIN bc

Acyclic(bc) == \A s \in DOMAIN bc : s \notin TransitiveDeps(bc, s)

\* the steps decoded from the bytecode (step_objs / name_to_raw)
StepRecords(deps, retr, hand) ==
    [s \in DOMAIN deps |-> [depends_on |-> SetToSeq(deps[s]),
                      retries |-> retr[s],
                      on_error |-> hand[s]]]

\* Names and dependencies: sorted() is the only place where the VM compares
\* names, and it compares steps that become ready together, never a step
\* with one it depends on.  The steps are therefore numbered along the
\* dependencies (a step depends on lower-numbered steps only), which leaves
\* every order among steps that can be ready together.
ForwardDeps ==
    {D \in [AllSteps -> SUBSET AllSteps] : \A s \in AllSteps : \A d \in D[s] : d < s}

\* the bytecode is one the semantic analyzer lets through: no name twice,
\* every dependency resolved, no cycle (Resolved and Acyclic hold of it)
ValidBytecode(bc) ==
    \E deps \in ForwardDeps :
        \E retr \in [AllSteps -> 0..MaxRetries] :
            \E hand \in [AllSteps -> {NoHandler} \cup Handlers] :
                bc = StepRecords(deps, retr, hand)

\* ------------------------------------------------------------ _build_graph
RECURSIVE AdjFrom(_, _, _)
\* what the steps 1..n of step_objs, in list order, append to adj[dep]
AdjFrom(bc, dep, n) ==
    IF n = 0 THEN <<>>
    ELSE AdjFrom(bc, dep, n - 1)
         \o [i \in 1..Occurrences(bc[n].depends_on, dep) |-> n]

\* mutant: a successor is listed once however often it names the step
BuildAdjDistinct(bc) ==
    [d \in DOMAIN bc |->
        SetToSeq({n \in DOMAIN bc : d \in Range(bc[n].depends_on)})]

BuildAdj(bc) == [d \in DOMAIN bc |-> AdjFrom(bc, d, Len(bc))]

\* mutant: one increment per step that has dependencies, not one per entry
BuildIndegPerStep(bc) ==
    [n \in DOMAIN bc |-> IF bc[n].depends_on = <<>> THEN 0 ELSE 1]

\* one increment per entry of depends_on
BuildIndeg(bc) == [n \in DOMAIN bc |-> Len(bc[n].depends_on)]

\* mutant: the names in depends_on are not looked up
GraphBuildsUnchecked(bc) == TRUE

\* no SemanticError: every dep is in steps_set
GraphBuilds(bc) == \A s \in DOMAIN bc : \A d \in DependsOn(bc, s) : d \in DOMAIN bc

\* ----------------------------------------------------------------- _report
Report(ev, step_name, status) == [ev EXCEPT ![step_name] = Append(@, status)]

RECURSIVE ReportEach(_, _, _)
ReportEach(ev, names, status) ==
    IF names = <<>> THEN ev
    ELSE ReportEach(Report(ev, Head(names), status), Tail(names), status)

\* ----------------------------------------------------------- _execute_step
\* range(retries + 1)
Attempts(step_name) == bytecode[step_name].retries + 1

\* mutant: neither the event nor the abort flag is looked at
StopRequestedNever == FALSE

\* mutant: the worker looks at the cancel event only
StopRequestedByEventOnly == cancel_event

\* (self.cancel_event and self.cancel_event.is_set()) or self.cancelled
StopRequested == cancel_event \/ cancelled

\* the worker returns: the Future becomes FINISHED with the value
Return(step_name, value, at) ==
    /\ fut' = [fut EXCEPT ![step_name] = "FINISHED"]
    /\ fresult' = [fresult EXCEPT ![step_name] = value]
    /\ wpc' = [wpc EXCEPT ![step_name] = at]

IdleThreads == max_workers - Cardinality({s \in Steps : fut[s] = "RUNNING"})

\* a pool thread takes the work item off the queue and enters _execute_step
WorkerStart(step_name) ==
    /\ fut[step_name] = "PENDING"
    /\ step_name \in Range(queue)
    /\ Position(queue, step_name) <= IdleThreads
    /\ fut' = [fut EXCEPT ![step_name] = "RUNNING"]
    /\ queue' = Remove(queue, step_name)
    /\ events' = Report(events, step_name, "running")
    /\ wpc' = [wpc EXCEPT ![step_name] = "check"]
    /\ attempt' = [attempt EXCEPT ![step_name] = 0]
    /\ UNCHANGED <<otherVars, inputVars, schedVars, notifyVars, cancel_event, fresult,
                   calls, outcomes, submits>>

\* top of the retry loop: the cancel/abort check, then the sandbox is invoked
WorkerCheck(step_name) ==
    /\ fut[step_name] = "RUNNING"
    /\ wpc[step_name] = "check"
    /\ IF StopRequested
       THEN /\ events' = Report(events, step_name, "failed")
            /\ Return(step_name, FALSE, "return_101")
            /\ UNCHANGED calls
       ELSE /\ wpc' = [wpc EXCEPT ![step_name] = "sandbox"]
            /\ calls' = [calls EXCEPT ![step_name] = @ + 1]
            /\ UNCHANGED <<events, fut, fresult>>
    /\ UNCHANGED <<otherVars, inputVars, schedVars, notifyVars, cancel_event, queue,
                   attempt, outcomes, submits>>

\* mutant: no early return, the result of the last attempt is the result
AfterSandboxLastAttemptWins(step_name, ok) ==
    IF attempt[step_name] + 1 < Attempts(step_name)
    THEN /\ attempt' = [attempt EXCEPT ![step_name] = @ + 1]
         /\ wpc' = [wpc EXCEPT ![step_name] = "check"]
         /\ UNCHANGED <<events, fut, fresult>>
    ELSE IF ok
    THEN /\ events' = Report(events, step_name, "succeeded")
         /\ Return(step_name, TRUE, "return_105")
         /\ UNCHANGED attempt
    ELSE /\ events' = Report(events, step_name, "failed")
         /\ Return(step_name, FALSE, "return_110")
         /\ UNCHANGED attempt

\* mutant: "failed" is reported for every failed attempt
AfterSandboxReportsEachFailure(step_name, ok) ==
    IF ok
    THEN /\ events' = Report(events, step_name, "succeeded")
         /\ Return(step_name, TRUE, "return_105")
         /\ UNCHANGED attempt
    ELSE IF attempt[step_name] + 1 < Attempts(step_name)
    THEN /\ attempt' = [attempt EXCEPT ![step_name] = @ + 1]
         /\ wpc' = [wpc EXCEPT ![step_name] = "check"]
         /\ events' = Report(events, step_name, "failed")
         /\ UNCHANGED <<fut, fresult>>
    ELSE /\ events' = Report(events, step_name, "failed")
         /\ Return(step_name, FALSE, "return_110")
         /\ UNCHANGED attempt

\* what the worker does with the value run_cmd_sandbox returned
AfterSandbox(step_name, ok) ==
    IF ok
    THEN /\ events' = Report(events, step_name, "succeeded")
         /\ Return(step_name, TRUE, "return_105")
         /\ UNCHANGED attempt
    ELSE IF attempt[step_name] + 1 < Attempts(step_name)
    THEN /\ attempt' = [attempt EXCEPT ![step_name] = @ + 1]
         /\ wpc' = [wpc EXCEPT ![step_name] = "check"]
         /\ UNCHANGED <<events, fut, fresult>>
    ELSE /\ events' = Report(events, step_name, "failed")
         /\ Return(step_name, FALSE, "return_110")
         /\ UNCHANGED attempt

\* run_cmd_sandbox returns
WorkerSandbox(step_name) ==
    /\ fut[step_name] = "RUNNING"
    /\ wpc[step_name] = "sandbox"
    /\ \E ok \in BOOLEAN :
          /\ outcomes' = [outcomes EXCEPT ![step_name] = Append(@, ok)]
          /\ AfterSandbox(step_name, ok)
    /\ UNCHANGED <<otherVars, inputVars, schedVars, notifyVars, cancel_event, queue,
                   calls, submits>>

\* ------------------------------------------------------------ _emit_notify
NotifyLine(notify_name, failed_step) ==
    IF notify_name \in notify_map
    THEN [kind |-> "NOTIFY", name |-> notify_name, failed_step |-> failed_step]
    ELSE [kind |-> "NOTIFY-MISSING", name |-> notify_name,
          failed_step |-> failed_step]

\* the call, inside try/except: it appends one line unless writing raises
EmitNotify(notify_name, failed_step) ==
    /\ dispatched' = Append(dispatched, <<notify_name, failed_step>>)
    /\ \E raises \in BOOLEAN :
          log' = IF raises THEN log
                 ELSE Append(log, NotifyLine(notify_name, failed_step))

\* ----------------------------------------------------------------- execute
\* ex.submit for each name of `names`, in order; rf: running_futures before
Submit(names, rf) ==
    /\ fut' = [n \in Steps |-> IF n \in Range(names) THEN "PENDING" ELSE fut[n]]
    /\ queue' = queue \o names
    /\ submits' = [n \in Steps |-> submits[n] + Occurrences(names, n)]
    /\ running_futures' = rf \cup Range(names)

\* for f in running_futures: f.cancel(); running_futures.clear().
\* cancel() succeeds on a work item no thread has started, and only there
CancelFutures(rf) ==
    /\ fut' = [n \in Steps |->
                 IF n \in rf /\ fut[n] = "PENDING" THEN "CANCELLED" ELSE fut[n]]
    /\ queue' = SelectSeq(queue, LAMBDA n : n \notin rf)
    /\ running_futures' = {}

\* mutant: "on_error" in raw, which holds for every emitted step
HasHandlerKey(step) == bytecode[step].on_error \in {NoHandler} \cup Handlers

\* raw.get("on_error") is truthy
HasHandler(step) == bytecode[step].on_error # NoHandler

\* mutant: a successor is taken as ready at every decrement
BecomesReadyAlways(count) == TRUE

\* if self.indeg[neigh] == 0
BecomesReady(count) == count = 0

RECURSIVE ReleaseFold(_, _, _)
\* for neigh in adj[step]: indeg[neigh] -= 1; if indeg[neigh] == 0: newly_ready.append
ReleaseFold(neighs, ind, newly_ready) ==
    IF neighs = <<>> THEN [indeg |-> ind, newly_ready |-> newly_ready]
    ELSE LET neigh == Head(neighs)
             ind2 == [ind EXCEPT ![neigh] = @ - 1]
         IN ReleaseFold(Tail(neighs), ind2,
                        IF BecomesReady(ind2[neigh])
                        THEN Append(newly_ready, neigh)
                        ELSE newly_ready)

\* mutant: the submit loop stops after the first name
ToSubmitFirstOnly(newly_ready, comp, fl) ==
    LET all == SelectSeq(sorted(newly_ready),
                         LAMBDA nr : nr \notin comp /\ nr \notin fl)
    IN IF all = <<>> THEN <<>> ELSE <<Head(all)>>

\* for nr in sorted(newly_ready): if nr in completed or nr in failed: continue
ToSubmit(newly_ready, comp, fl) ==
    SelectSeq(sorted(newly_ready), LAMBDA nr : nr \notin comp /\ nr \notin fl)

\* the successors of `step` lose one unresolved dependency; those at zero are
\* reported queued and submitted in sorted order
ReleaseSuccessors(step, comp, fl) ==
    LET r == ReleaseFold(adj[step], indeg, <<>>)
    IN /\ indeg' = r.indeg
       /\ events' = ReportEach(events, r.newly_ready, "queued")
       /\ Submit(ToSubmit(r.newly_ready, comp, fl), running_futures \ {step})

\* the values of the return statements of execute(): line 213 (abort),
\* line 225 (cancel), line 229 (finished with failures), line 231 (success)
AbortResult == FALSE
CancelResult == FALSE
FailuresResult == FALSE
SuccessResult == TRUE

\* execute() returns `value` from the return statement at line `at`
Leave(value, at) ==
    /\ result' = value
    /\ exitAt' = at

\* mutant: an empty ready list fails whether or not there are steps
NoReadyStepsAtAll(ready) == ready = <<>>

\* if not ready and self.steps_set
NoReadySteps(ready) == ready = <<>> /\ Steps # {}

\* lines 128-149: build the graph, report and submit the initial ready steps
Start ==
    /\ pc = "start"
    /\ UNCHANGED <<otherVars, inputVars, notifyVars, workerVars, cancel_event, completed,
                   failed, cancelled, fresult>>
    /\ IF ~GraphBuilds(bytecode)
       THEN /\ pc' = "done"
            /\ Leave(FALSE, 134)
            /\ UNCHANGED <<adj, indeg, events, fut, queue, submits,
                           running_futures, snap>>
       ELSE LET ready == SetToSeq({n \in Steps : BuildIndeg(bytecode)[n] = 0})
            IN /\ adj' = BuildAdj(bytecode)
               /\ indeg' = BuildIndeg(bytecode)
               /\ events' = ReportEach(events, ready, "queued")
               /\ IF NoReadySteps(ready)
                  THEN /\ pc' = "done"
                       /\ Leave(FALSE, 143)
                       /\ UNCHANGED <<fut, queue, submits, running_futures,
                                      snap>>
                  ELSE /\ pc' = "loop"
                       /\ Submit(sorted(ready), running_futures)
                       /\ UNCHANGED <<snap, result, exitAt>>

\* line 151-152 and 227-231: the while test; a new as_completed() over the
\* futures now in running_futures, or the end of the run
LoopTest ==
    /\ pc = "loop"
    /\ IF running_futures # {}
       THEN /\ pc' = "wait"
            /\ snap' = running_futures
            /\ UNCHANGED <<result, exitAt>>
       ELSE /\ pc' = "done"
            /\ snap' = snap
            /\ IF failed # {} THEN Leave(FailuresResult, 229)
               ELSE Leave(SuccessResult, 231)
    /\ UNCHANGED <<otherVars, inputVars, notifyVars, workerVars, cancel_event, completed,
                   failed, running_futures, cancelled, adj, indeg, fut, fresult,
                   queue, events, submits>>

\* lines 163-178
OnSuccess(step) ==
    /\ completed' = completed \cup {step}
    /\ ReleaseSuccessors(step, completed \cup {step}, failed)
    /\ snap' = snap \ {step}
    /\ UNCHANGED <<failed, cancelled, pc, result, exitAt, notifyVars>>

\* mutant: the failure is recorded and notified, the successors stay blocked
OnHandledFailureBlocks(step) ==
    /\ failed' = failed \cup {step}
    /\ EmitNotify(bytecode[step].on_error, step)
    /\ running_futures' = running_futures \ {step}
    /\ snap' = snap \ {step}
    /\ UNCHANGED <<completed, cancelled, pc, result, exitAt, indeg, events,
                   fut, queue, submits>>

\* mutant: the handler makes the failed step count as completed too
OnHandledFailureCompletes(step) ==
    /\ failed' = failed \cup {step}
    /\ completed' = completed \cup {step}
    /\ EmitNotify(bytecode[step].on_error, step)
    /\ ReleaseSuccessors(step, completed, failed \cup {step})
    /\ snap' = snap \ {step}
    /\ UNCHANGED <<cancelled, pc, result, exitAt>>

\* lines 180-202
OnHandledFailure(step) ==
    /\ failed' = failed \cup {step}
    /\ EmitNotify(bytecode[step].on_error, step)
    /\ ReleaseSuccessors(step, completed, failed \cup {step})
    /\ snap' = snap \ {step}
    /\ UNCHANGED <<completed, cancelled, pc, result, exitAt>>

\* lines 180-181, 203-213
OnUnhandledFailure(step) ==
    /\ failed' = failed \cup {step}
    /\ cancelled' = TRUE
    /\ CancelFutures(running_futures \ {step})
    /\ pc' = "shutdown"
    /\ Leave(AbortResult, 213)
    /\ snap' = snap \ {step}
    /\ UNCHANGED <<completed, indeg, events, submits, notifyVars>>

\* lines 153-213: as_completed yields a finished future of its snapshot
Process(step) ==
    /\ pc = "wait"
    /\ step \in snap
    /\ fut[step] = "FINISHED"
    /\ IF fresult[step] THEN OnSuccess(step)
       ELSE IF HasHandler(step) THEN OnHandledFailure(step)
       ELSE OnUnhandledFailure(step)
    /\ UNCHANGED <<otherVars, inputVars, workerVars, cancel_event, adj, fresult>>

\* lines 215-225: after the for loop over the snapshot
CancelCheck ==
    /\ pc = "wait"
    /\ snap = {}
    /\ IF StopRequested
       THEN /\ CancelFutures(running_futures)
            /\ pc' = "shutdown"
            /\ Leave(CancelResult, 225)
       ELSE /\ pc' = "loop"
            /\ UNCHANGED <<fut, queue, running_futures, result, exitAt>>
    /\ snap' = snap
    /\ UNCHANGED <<otherVars, inputVars, notifyVars, workerVars, cancel_event, completed,
                   failed, cancelled, adj, indeg, fresult, events, submits>>

\* leaving `with ThreadPoolExecutor`: shutdown(wait=True) joins the threads
Shutdown ==
    /\ pc = "shutdown"
    /\ \A s \in Steps : fut[s] \notin {"PENDING", "RUNNING"}
    /\ pc' = "done"
    /\ UNCHANGED <<otherVars, inputVars, notifyVars, workerVars, cancel_event, snap,
                   completed, failed, running_futures, cancelled, adj, indeg,
                   fut, fresult, queue, events, submits, result, exitAt>>

\* the embedder sets the cancel event
SetCancel ==
    /\ ~cancel_event
    /\ pc # "done"
    /\ cancel_event' = TRUE
    /\ UNCHANGED <<otherVars, inputVars, schedVars, notifyVars, workerVars, fut, fresult,
                   queue, events, submits>>

\* ================================================= the compiler (src/flowc)
\* None, for the optional fields that hold a string
None == "None"

\* Step.run = None; a command is a tuple of single characters, so no command
\* equals it
NoCommand == <<"None">>

\* a name that no step declares
Undeclared == NSteps + 1

NoError == "None"
DuplicateError == "Duplicate step name"
MissingError == "depends on missing step"
CycleError == "Cycle detected in step dependencies"
BannedError == "Banned pattern"
DagError == "Cycle detected when building DAG"
UnknownStepError == "depends on unknown step"

\* ------------------------------------------------------- semantic.py, checks
Names(steps) == {steps[i].name : i \in DOMAIN steps}

check_duplicates(steps) ==
    IF \E i \in DOMAIN steps :
           \E j \in 1..(i - 1) : steps[j].name = steps[i].name
    THEN DuplicateError
    ELSE NoError

check_missing_dependencies(steps) ==
    IF \E i \in DOMAIN steps :
           \E d \in Range(steps[i].depends_on) : d \notin Names(steps)
    THEN MissingError
    ELSE NoError

\* -------------------------------------------------- semantic.py, the regexes
\* what \s matches among the characters of the commands
Whitespace == {" ", "\t", "\n"}

At(cmd, i, c) == i \in DOMAIN cmd /\ cmd[i] = c

\* mutant: rm\s-rf, exactly one whitespace character
MatchesRmRfOneSpace(cmd) ==
    \E i \in DOMAIN cmd :
        /\ At(cmd, i, "r") /\ At(cmd, i + 1, "m")
        /\ i + 2 \in DOMAIN cmd /\ cmd[i + 2] \in Whitespace
        /\ At(cmd, i + 3, "-") /\ At(cmd, i + 4, "r") /\ At(cmd, i + 5, "f")

\* rm\s+-rf
MatchesRmRf(cmd) ==
    \E i \in DOMAIN cmd :
        \E k \in 1..Len(cmd) :
            /\ At(cmd, i, "r") /\ At(cmd, i + 1, "m")
            /\ \A j \in 1..k :
                  i + 1 + j \in DOMAIN cmd /\ cmd[i + 1 + j] \in Whitespace
            /\ At(cmd, i + k + 2, "-")
            /\ At(cmd, i + k + 3, "r")
            /\ At(cmd, i + k + 4, "f")

\* (^|;|\s)X(\s|$) for X the pipe or the ampersand; $ also matches before a
\* final newline, which \s matches already
MatchesOperator(cmd, op) ==
    \E i \in DOMAIN cmd :
        /\ cmd[i] = op
        /\ (i = 1 \/ cmd[i - 1] \in ({";"} \cup Whitespace))
        /\ (i = Len(cmd) \/ cmd[i + 1] \in Whitespace)

\* (>>)
MatchesAppend(cmd) ==
    \E i \in DOMAIN cmd : At(cmd, i, ">") /\ At(cmd, i + 1, ">")

\* the backtick, a character that a TLA+ string cannot hold
Backtick == "BACKTICK"

\* the pattern of one backtick
MatchesBacktick(cmd) == \E i \in DOMAIN cmd : cmd[i] = Backtick

BANNED_PATTERNS ==
    <<"rm\\s+-rf", "(^|;|\\s)\\|(\\s|$)", "(>>)", "(^|;|\\s)&(\\s|$)", Backtick>>

\* re.search(pat, cmd) for the patterns of BANNED_PATTERNS
re_search(pat, cmd) ==
    CASE pat = "rm\\s+-rf" -> MatchesRmRf(cmd)
      [] pat = "(^|;|\\s)\\|(\\s|$)" -> MatchesOperator(cmd, "|")
      [] pat = "(>>)" -> MatchesAppend(cmd)
      [] pat = "(^|;|\\s)&(\\s|$)" -> MatchesOperator(cmd, "&")
      [] pat = Backtick -> MatchesBacktick(cmd)

\* if s.run: neither None nor the empty string
HasCommand(s) == s.run # NoCommand /\ s.run # <<>>

check_banned_commands(steps) ==
    IF \E i \in DOMAIN steps :
           /\ HasCommand(steps[i])
           /\ \E k \in DOMAIN BANNED_PATTERNS :
                 re_search(BANNED_PATTERNS[k], steps[i].run)
    THEN BannedError
    ELSE NoError

\* ------------------------------------------- semantic.py, Kahn's algorithm
\* the index of the last step declared with name n
LastDeclared(steps, n) ==
    CHOOSE i \in DOMAIN steps :
        /\ steps[i].name = n
        /\ \A j \in DOMAIN steps : steps[j].name = n => j <= i

\* graph = {s.name: set(s.depends_on) for s in steps}
DepGraph(steps) ==
    [n \in Names(steps) |-> Range(steps[LastDeclared(steps, n)].depends_on)]

RECURSIVE Keys(_)
\* list(graph.keys()): the names in the order of their first declaration
Keys(steps) ==
    IF steps = <<>> THEN <<>>
    ELSE LET before == Keys(SubSeq(steps, 1, Len(steps) - 1))
             n == steps[Len(steps)].name
         IN IF n \in Range(before) THEN before ELSE Append(before, n)

\* mutant: a successor is appended whenever its counter is decremented
EnqueueOnDecrement(count) == TRUE

\* if indeg[m] == 0
EnqueueAtZero(count) == count = 0

RECURSIVE Relax(_, _, _, _, _)
\* for m in list(graph.keys()): if n in graph[m]: remove it, decrement
\* indeg[m], append m to the queue at zero
Relax(keys, n, g, ind, q) ==
    IF keys = <<>> THEN [graph |-> g, indeg |-> ind, queue |-> q]
    ELSE LET m == Head(keys)
         IN IF n \in g[m]
            THEN LET ind2 == [ind EXCEPT ![m] = @ - 1]
                 IN Relax(Tail(keys), n, [g EXCEPT ![m] = @ \ {n}], ind2,
                          IF EnqueueAtZero(ind2[m]) THEN Append(q, m) ELSE q)
            ELSE Relax(Tail(keys), n, g, ind, q)

\* mutant: the queue is left in the order the names were appended
Unsorted(q) == q

\* queue.sort()
SortQueue(q) == sorted(q)

RECURSIVE KahnLoop(_, _, _, _, _)
\* while queue: n = queue.pop(0); order.append(n); ...; queue.sort()
KahnLoop(keys, g, ind, q, ord) ==
    IF q = <<>> THEN ord
    ELSE LET n == Head(q)
             r == Relax(keys, n, g, ind, Tail(q))
         IN KahnLoop(keys, r.graph, r.indeg, SortQueue(r.queue),
                     Append(ord, n))

\* the loop that detect_cycle and build_dag share, up to its final test
Kahn(steps) ==
    LET g == DepGraph(steps)
        ind == [n \in DOMAIN g |-> Cardinality(g[n])]
        q == SelectSeq(Keys(steps), LAMBDA n : ind[n] = 0)
    IN KahnLoop(Keys(steps), g, ind, SortQueue(q), <<>>)

\* mutant: the final test never finds a step missing
NeverIncomplete(ord, steps) == FALSE

\* if len(order) != len(steps)
Incomplete(ord, steps) == Len(ord) # Len(steps)

detect_cycle(steps) ==
    IF Incomplete(Kahn(steps), steps) THEN CycleError ELSE NoError

build_dag(steps) ==
    LET ord == Kahn(steps)
    IN IF Incomplete(ord, steps) THEN [error |-> DagError, order |-> <<>>]
       ELSE [error |-> NoError, order |-> ord]

\* mutant: the commands are checked before the graph
semantic_check_commands_first(wf) ==
    IF check_banned_commands(wf.steps) # NoError
    THEN [error |-> check_banned_commands(wf.steps), order |-> <<>>]
    ELSE IF check_duplicates(wf.steps) # NoError
    THEN [error |-> check_duplicates(wf.steps), order |-> <<>>]
    ELSE IF check_missing_dependencies(wf.steps) # NoError
    THEN [error |-> check_missing_dependencies(wf.steps), order |-> <<>>]
    ELSE IF detect_cycle(wf.steps) # NoError
    THEN [error |-> detect_cycle(wf.steps), order |-> <<>>]
    ELSE build_dag(wf.steps)

\* the first check that raises ends the call with its SemanticError
semantic_check(wf) ==
    IF check_duplicates(wf.steps) # NoError
    THEN [error |-> check_duplicates(wf.steps), order |-> <<>>]
    ELSE IF check_missing_dependencies(wf.steps) # NoError
    THEN [error |-> check_missing_dependencies(wf.steps), order |-> <<>>]
    ELSE IF detect_cycle(wf.steps) # NoError
    THEN [error |-> detect_cycle(wf.steps), order |-> <<>>]
    ELSE IF check_banned_commands(wf.steps) # NoError
    THEN [error |-> check_banned_commands(wf.steps), order |-> <<>>]
    ELSE build_dag(wf.steps)

\* ------------------------------------------------------------------- ir.py
Instr(s) ==
    [op |-> "RUN", step |-> s.name, cmd |-> s.run, timeout |-> s.timeout,
     retries |-> s.retries, depends_on |-> s.depends_on,
     on_error |-> s.on_error]

\* mutant: the instructions are emitted in the semantic order, as the
\* transpiler orders them
workflow_to_ir_ordered(wf) ==
    LET ord == semantic_check(wf).order
    IN [k \in DOMAIN ord |->
           Instr(wf.steps[CHOOSE i \in DOMAIN wf.steps :
                              wf.steps[i].name = ord[k]])]

\* one instruction per step, in the order of declaration
workflow_to_ir(wf) == [i \in DOMAIN wf.steps |-> Instr(wf.steps[i])]

\* ----------------------------------------------------- cli.do_emit_bytecode
\* the Notify objects as dicts
NotifyDicts(notifies) ==
    [i \in DOMAIN notifies |->
        [name |-> notifies[i].name, email |-> notifies[i].email,
         subject |-> notifies[i].subject, body |-> notifies[i].body]]

\* ------------------------------------------------- json.dump and json.load
\* JSON values carry their JSON type; a Python value is written as the JSON
\* type of its Python type and read back as the Python type of its JSON type
JsonNull == [t |-> "null"]
JsonString(v) == [t |-> "string", v |-> v]
JsonNumber(n) == [t |-> "number", v |-> n]
JsonArray(items) == [t |-> "array", v |-> items]
JsonObject(members) == [t |-> "object", v |-> members]

\* an Optional[str]
DumpOptional(v, none) == IF v = none THEN JsonNull ELSE JsonString(v)

DumpStrings(q) == JsonArray([i \in DOMAIN q |-> JsonString(q[i])])

DumpInstr(instr) ==
    JsonObject([op |-> JsonString(instr.op),
                step |-> JsonString(instr.step),
                cmd |-> DumpOptional(instr.cmd, NoCommand),
                timeout |-> DumpOptional(instr.timeout, None),
                retries |-> JsonNumber(instr.retries),
                depends_on |-> DumpStrings(instr.depends_on),
                on_error |-> DumpOptional(instr.on_error, NoHandler)])

DumpNotify(n) ==
    JsonObject([name |-> JsonString(n.name),
                email |-> DumpOptional(n.email, None),
                subject |-> DumpOptional(n.subject, None),
                body |-> DumpOptional(n.body, None)])

\* what null is read back as, by the key it stands under
NoneAt(key) == IF key = "cmd" THEN NoCommand ELSE None

LoadValue(key, j) ==
    CASE j.t = "null" -> NoneAt(key)
      [] j.t \in {"string", "number"} -> j.v
      [] j.t = "array" -> [i \in DOMAIN j.v |-> j.v[i].v]

\* an object whose members are scalars or arrays of strings
LoadDict(j) == [key \in DOMAIN j.v |-> LoadValue(key, j.v[key])]

json_load(doc) ==
    [key \in DOMAIN doc.v |->
        IF key = "workflow" THEN doc.v[key].v
        ELSE [i \in DOMAIN doc.v[key].v |-> LoadDict(doc.v[key].v[i])]]

\* -------------------------------------------------------------- bytecode.py
\* bc = {"workflow", "steps"}, and "notifies" if the list is not empty
emit_bytecode(workflow_name, instrs, notifies) ==
    IF notifies # <<>>
    THEN JsonObject([workflow |-> JsonString(workflow_name),
                     steps |-> JsonArray([i \in DOMAIN instrs |->
                                             DumpInstr(instrs[i])]),
                     notifies |-> JsonArray([i \in DOMAIN notifies |->
                                                DumpNotify(notifies[i])])])
    ELSE JsonObject([workflow |-> JsonString(workflow_name),
                     steps |-> JsonArray([i \in DOMAIN instrs |->
                                             DumpInstr(instrs[i])])])

\* ------------------------------------------------- vm.py, loading bytecode
load_bytecode(doc) == json_load(doc)

\* d.get(key, default)
Get(d, key, default) == IF key \in DOMAIN d THEN d[key] ELSE default

\* the Step built from a raw instruction (a list read from JSON is a list, so
\* "or []" leaves depends_on as it is)
StepOf(s) ==
    [name |-> Get(s, "step", None),
     run |-> Get(s, "cmd", NoCommand),
     timeout |-> Get(s, "timeout", None),
     retries |-> Get(s, "retries", 0),
     depends_on |-> Get(s, "depends_on", <<>>),
     on_error |-> Get(s, "on_error", NoHandler)]

\* ParallelVM.__init__: steps_raw, notifies_raw, step_objs
VmInit(bc) ==
    LET steps_raw == Get(bc, "steps", <<>>)
    IN [steps_raw |-> steps_raw,
        notifies_raw |-> Get(bc, "notifies", <<>>),
        step_objs |-> [i \in DOMAIN steps_raw |-> StepOf(steps_raw[i])]]

RECURSIVE AddDeps(_, _, _, _)
\* for dep in s.depends_on: raise on an unknown name, else
\* adj[dep].append(name); indeg[name] += 1
AddDeps(name, deps, g, steps_set) ==
    IF deps = <<>> \/ g.error # NoError THEN g
    ELSE LET dep == Head(deps)
         IN IF dep \notin steps_set
            THEN [g EXCEPT !.error = UnknownStepError]
            ELSE AddDeps(name, Tail(deps),
                         [g EXCEPT !.adj[dep] = Append(@, name),
                                   !.indeg[name] = @ + 1],
                         steps_set)

RECURSIVE AddSteps(_, _, _)
\* for s in self.step_objs
AddSteps(objs, g, steps_set) ==
    IF objs = <<>> THEN g
    ELSE AddSteps(Tail(objs),
                  AddDeps(Head(objs).name, Head(objs).depends_on, g, steps_set),
                  steps_set)

\* ParallelVM._build_graph over a list of Step objects
build_graph(objs) ==
    AddSteps(objs,
             [adj |-> [n \in Names(objs) |-> <<>>],
              indeg |-> [n \in Names(objs) |-> 0],
              error |-> NoError],
             Names(objs))

\* ------------------------------------------------- the compile pipeline
\* cli.do_check: semantic_check on the parsed workflow
SemanticCheck ==
    /\ cpc = "parsed"
    /\ LET r == semantic_check(workflow)
       IN /\ error' = r.error
          /\ order' = r.order
          /\ cpc' = IF r.error = NoError THEN "checked" ELSE "rejected"
    /\ UNCHANGED <<workflow, ir, file, loaded, graph, vmVars, sandboxVars, restVars>>

\* cli.do_emit_bytecode: lowering
Lower ==
    /\ cpc = "checked"
    /\ ir' = workflow_to_ir(workflow)
    /\ cpc' = "lowered"
    /\ UNCHANGED <<workflow, order, error, file, loaded, graph, vmVars,
                   sandboxVars, restVars>>

\* cli.do_emit_bytecode: writing the file
Emit ==
    /\ cpc = "lowered"
    /\ file' = emit_bytecode(workflow.name, ir, NotifyDicts(workflow.notifies))
    /\ cpc' = "emitted"
    /\ UNCHANGED <<workflow, order, error, ir, loaded, graph, vmVars,
                   sandboxVars, restVars>>

\* cli.do_run_bytecode: load_bytecode and ParallelVM(bc)
Load ==
    /\ cpc = "emitted"
    /\ loaded' = VmInit(load_bytecode(file))
    /\ cpc' = "loaded"
    /\ UNCHANGED <<workflow, order, error, ir, file, graph, vmVars,
                   sandboxVars, restVars>>

\* ParallelVM.execute, up to the graph
BuildGraph ==
    /\ cpc = "loaded"
    /\ graph' = build_graph(loaded.step_objs)
    /\ cpc' = "built"
    /\ UNCHANGED <<workflow, order, error, ir, file, loaded, vmVars,
                   sandboxVars, restVars>>

\* ------------------------------------------------- the workflows compiled
MaxDeps == 2

\* the commands of the steps, character by character
CmdLs == <<"l", "s">>
CmdRmRf == <<"r", "m", " ", "-", "r", "f">>
CmdRmTabRf == <<"r", "m", " ", "\t", "-", "r", "f", " ", "x">>
CmdRmRfInside == <<"x", "r", "m", "\n", "-", "r", "f", "x">>
CmdRmNoSpace == <<"r", "m", "-", "r", "f">>
CmdRmR == <<"r", "m", " ", "-", "r">>
CmdAppend == <<"a", ">", ">", "b">>
CmdWrite == <<"a", ">", "b">>
CmdBacktick == <<"a", Backtick, "b">>
CmdPipe == <<"a", " ", "|", " ", "b">>
CmdPipeTight == <<"a", "|", "b">>
CmdBackground == <<"a", " ", "&">>
CmdAnd == <<"a", "&", "&", "b">>

Commands ==
    {NoCommand, <<>>, CmdLs, CmdRmRf, CmdRmTabRf, CmdRmRfInside, CmdRmNoSpace,
     CmdRmR, CmdAppend, CmdWrite, CmdBacktick, CmdPipe, CmdPipeTight,
     CmdBackground, CmdAnd}

\* the fields of a step besides its name and its dependencies
Plain ==
    [run |-> CmdLs, timeout |-> None, retries |-> 0, on_error |-> NoHandler]

Profiles ==
    {Plain,
     [run |-> NoCommand, timeout |-> "5s", retries |-> MaxRetries,
      on_error |-> "notify_ops"],
     [run |-> <<>>, timeout |-> "5", retries |-> 0, on_error |-> "nobody"]}

StepDecl(n, deps, prof) ==
    [name |-> n, run |-> prof.run, timeout |-> prof.timeout,
     retries |-> prof.retries, depends_on |-> deps,
     on_error |-> prof.on_error]

WorkflowOf(steps, notifies) ==
    [name |-> "w", steps |-> steps, notifies |-> notifies]

\* depends_on lists of at most MaxDeps names, and one that names no step
DepLists ==
    {SetToSeq(S) : S \in {T \in SUBSET AllSteps : Cardinality(T) <= MaxDeps}}
    \cup {<<Undeclared>>}

\* every way to name NSteps declarations and to make them depend on one
\* another: names twice, names missing, cycles, and every declaration order
GraphWorkflows(wf) ==
    \E names \in [AllSteps -> AllSteps] :
        \E deps \in [AllSteps -> DepLists] :
            wf = WorkflowOf([i \in AllSteps |-> StepDecl(names[i], deps[i], Plain)],
                            <<>>)

\* one step with any of the commands, in workflows with and without a name
\* twice, a missing name or a cycle
CommandWorkflows(wf) ==
    \E names \in {[i \in AllSteps |-> i], [i \in AllSteps |-> 1]} :
        \E deps \in [AllSteps -> {<<>>, <<1>>, <<Undeclared>>}] :
            \E k \in AllSteps :
                \E c \in Commands :
                    wf = WorkflowOf(
                           [i \in AllSteps |->
                               StepDecl(names[i], deps[i],
                                        IF i = k THEN [Plain EXCEPT !.run = c]
                                        ELSE Plain)],
                           <<>>)

Notifiers ==
    {<<>>,
     <<[name |-> "notify_ops", email |-> "ops@example.com", subject |-> None,
        body |-> None]>>}

\* accepted workflows whose steps differ in every field, with and without
\* notifiers
FieldWorkflows(wf) ==
    \E deps \in ForwardDeps :
        \E prof \in [AllSteps -> Profiles] :
            \E notifies \in Notifiers :
                wf = WorkflowOf(
                       [i \in AllSteps |->
                           StepDecl(i, SetToSeq(deps[i]), prof[i])],
                       notifies)

CompilerIdle ==
    /\ workflow = WorkflowOf(<<>>, <<>>)
    /\ cpc = "idle"
    /\ order = <<>>
    /\ error = NoError
    /\ ir = <<>>
    /\ file = JsonNull
    /\ loaded = VmInit(<<>>)
    /\ graph = build_graph(<<>>)

\* parser.parse has returned the workflow
CompilerStarts ==
    /\ \/ GraphWorkflows(workflow)
       \/ CommandWorkflows(workflow)
       \/ FieldWorkflows(workflow)
    /\ cpc = "parsed"
    /\ order = <<>>
    /\ error = NoError
    /\ ir = <<>>
    /\ file = JsonNull
    /\ loaded = VmInit(<<>>)
    /\ graph = build_graph(<<>>)

NextCompile ==
    \/ SemanticCheck
    \/ Lower
    \/ Emit
    \/ Load
    \/ BuildGraph

\* ======================================= the sandbox (src/flowrun/executor.py)
MaxTimeout == 2
MaxOversleep == 2
MaxMemLimit == 1

\* time is counted in poll intervals (poll_interval = 0.2 s); a run without
\* timeout is followed up to MaxTime
MaxTime == MaxTimeout + MaxOversleep

\* None, for timeout and mem_limit_mb
NoLimit == -1

\* 1024 * 1024
MiB == 1048576

\* resident sizes around the ceilings
RssValues == {0} \cup UNION {{m * MiB, m * MiB + 1} : m \in 0..MaxMemLimit}

\* exit statuses of a child that ends by itself, and of one ended by SIGKILL
OwnExits == {0, 1}
Killed == 0 - 9

\* the child has not ended by itself
NotExited == 0 - 1

\* the arguments and the environment of one invocation
sandboxInputs == <<timeout, mem_limit_mb, psutil>>

\* the kill of the process tree, inside try/except: the request is recorded;
\* it ends a running child unless it fails
Kill(reason) ==
    \E delivered \in BOOLEAN :
        /\ kills' = Append(kills, [reason |-> reason, delivered |-> delivered])
        /\ IF delivered /\ proc = "running"
           THEN proc' = "exited" /\ returncode' = Killed
           ELSE UNCHANGED <<proc, returncode>>

\* _monitor_and_enforce returns `value` to run_cmd_sandbox
MonitorReturns(value) ==
    /\ success' = value
    /\ spc' = "collect"

\* mutant: any exit counts as success
ExitedAtAll(ret) == TRUE

\* ret == 0, proc.returncode == 0
ExitedZero(ret) == ret = 0

\* mutant: one more poll interval is granted
TimedOutLate(elapsed) == timeout # NoLimit /\ elapsed > timeout + 1

\* timeout is not None and (time.time() - start) > timeout
TimedOut(elapsed) == timeout # NoLimit /\ elapsed > timeout

\* lines 57-79: the blocking wait without psutil and without a memory limit,
\* else the psutil wrapper, which may not be had
Monitor ==
    /\ spc = "start"
    /\ IF ~psutil /\ mem_limit_mb = NoLimit
       THEN spc' = "wait" /\ p' = FALSE
       ELSE /\ spc' = "timeout_check"
            /\ p' \in (IF psutil THEN BOOLEAN ELSE {FALSE})
    /\ UNCHANGED <<sandboxInputs, exited_at, peak_rss, proc, returncode, rss, now,
                   ticks, kills, success, vmVars, compilerVars, restVars>>

\* lines 62-70: proc.wait(timeout=timeout) returns the exit status, or raises
\* TimeoutExpired once the timeout has passed
BlockingWait ==
    /\ spc = "wait"
    /\ \/ /\ proc = "exited"
          /\ MonitorReturns(ExitedZero(returncode))
          /\ UNCHANGED <<proc, returncode, kills>>
       \/ /\ proc = "running"
          /\ timeout # NoLimit
          /\ now >= timeout
          /\ Kill("timeout")
          /\ MonitorReturns(FALSE)
    /\ UNCHANGED <<sandboxInputs, exited_at, peak_rss, p, rss, now, ticks, vmVars,
                   compilerVars, restVars>>

\* time passes while the supervisor is blocked in proc.wait
TimePasses ==
    /\ spc = "wait"
    /\ proc = "running"
    /\ now < MaxTime
    /\ timeout = NoLimit \/ now < timeout
    /\ now' = now + 1
    /\ UNCHANGED <<sandboxInputs, exited_at, peak_rss, p, proc, returncode, rss,
                   spc, ticks, kills, success, vmVars, compilerVars, restVars>>

\* lines 82-97: a poll tick begins with the timeout check
TimeoutCheck ==
    /\ spc = "timeout_check"
    /\ ticks' = ticks + 1
    /\ IF TimedOut(now)
       THEN Kill("timeout") /\ MonitorReturns(FALSE)
       ELSE spc' = "poll" /\ UNCHANGED <<proc, returncode, kills, success>>
    /\ UNCHANGED <<sandboxInputs, exited_at, peak_rss, p, rss, now, vmVars,
                   compilerVars, restVars>>

\* lines 99-102: proc.poll()
PollCheck ==
    /\ spc = "poll"
    /\ IF proc = "exited"
       THEN MonitorReturns(ExitedZero(returncode))
       ELSE spc' = "memory" /\ UNCHANGED success
    /\ UNCHANGED <<sandboxInputs, exited_at, peak_rss, p, proc, returncode, rss,
                   now, ticks, kills, vmVars, compilerVars, restVars>>

\* lines 104-121: the resident size of the tree, 0 without a wrapper and for
\* processes that cannot be queried
Measured == IF p /\ proc = "running" THEN rss ELSE 0

\* mutant: a tree at the ceiling is over it
AtOrOverCeiling(size) ==
    mem_limit_mb # NoLimit /\ size >= mem_limit_mb * MiB

\* mem_limit_mb is not None and rss > int(mem_limit_mb) * 1024 * 1024
OverCeiling(size) ==
    mem_limit_mb # NoLimit /\ size > mem_limit_mb * MiB

\* lines 123-134
MemoryCheck ==
    /\ spc = "memory"
    /\ IF OverCeiling(Measured)
       THEN Kill("memory") /\ MonitorReturns(FALSE)
       ELSE spc' = "sleep" /\ UNCHANGED <<proc, returncode, kills, success>>
    /\ UNCHANGED <<sandboxInputs, exited_at, peak_rss, p, rss, now, ticks, vmVars,
                   compilerVars, restVars>>

\* line 136: time.sleep(poll_interval) takes one interval or more
Sleep ==
    /\ spc = "sleep"
    /\ \E d \in 1..MaxOversleep :
          /\ now + d <= MaxTime
          /\ now' = now + d
    /\ spc' = "timeout_check"
    /\ UNCHANGED <<sandboxInputs, exited_at, peak_rss, p, proc, returncode, rss,
                   ticks, kills, success, vmVars, compilerVars, restVars>>

\* run_cmd_sandbox, lines 173-182: the output is collected within 0.1 s and
\* the value of _monitor_and_enforce is returned
Collect ==
    /\ spc = "collect"
    /\ spc' = "returned"
    /\ UNCHANGED <<sandboxInputs, exited_at, peak_rss, p, proc, returncode, rss,
                   now, ticks, kills, success, vmVars, compilerVars, restVars>>

\* the child ends by itself; once the supervisor has given its verdict on a
\* child that was still running, the exit is later than that moment
ChildExits ==
    /\ proc = "running"
    /\ spc # "returned"
    /\ proc' = "exited"
    /\ returncode' \in OwnExits
    /\ exited_at' = IF spc = "collect" THEN now + 1 ELSE now
    /\ UNCHANGED <<sandboxInputs, peak_rss, p, rss, now, spc, ticks,
                   kills, success, vmVars, compilerVars, restVars>>

\* the process tree allocates or frees memory
ChildResizes ==
    /\ proc = "running"
    /\ spc # "returned"
    /\ rss' \in RssValues \ {rss}
    /\ peak_rss' = IF rss' > peak_rss THEN rss' ELSE peak_rss
    /\ UNCHANGED <<sandboxInputs, exited_at, p, proc, returncode, now,
                   spc, ticks, kills, success, vmVars, compilerVars, restVars>>

SandboxIdle ==
    /\ timeout = NoLimit
    /\ mem_limit_mb = NoLimit
    /\ psutil = FALSE
    /\ p = FALSE
    /\ proc = "none"
    /\ returncode = 0
    /\ rss = 0
    /\ now = 0
    /\ spc = "idle"
    /\ ticks = 0
    /\ kills = <<>>
    /\ success = FALSE
    /\ exited_at = NotExited
    /\ peak_rss = 0

\* subprocess.Popen has started the child (run_cmd_sandbox, line 168)
SandboxStarts ==
    /\ timeout \in {NoLimit} \cup 0..MaxTimeout
    /\ mem_limit_mb \in {NoLimit} \cup 0..MaxMemLimit
    /\ psutil \in BOOLEAN
    /\ p = FALSE
    /\ proc = "running"
    /\ returncode = 0
    /\ rss = 0
    /\ now = 0
    /\ spc = "start"
    /\ ticks = 0
    /\ kills = <<>>
    /\ success = FALSE
    /\ exited_at = NotExited
    /\ peak_rss = 0

NextSandbox ==
    \/ Monitor
    \/ BlockingWait
    \/ TimePasses
    \/ TimeoutCheck
    \/ PollCheck
    \/ MemoryCheck
    \/ Sleep
    \/ Collect
    \/ ChildExits
    \/ ChildResizes

\* ======================= Notifier Dispatch (src/flowrun/vm.py, _emit_notify)
MaxBody == 4
MaxDispatches == 2

\* The characters a body is made of.  The literal ${failed_step} is written
\* as the two characters Dollar, Braces; LineBreak is a line break inside the
\* body; "x" is any other character.
Dollar == "$"
Braces == "{failed_step}"
LineBreak == "\n"
BodyChars == {Dollar, Braces, LineBreak, "x"}

Placeholder == <<Dollar, Braces>>

\* body = None; the f-string writes it as the text None
NoBody == <<"None">>

\* mutant: only the first occurrence is replaced (str.replace(old, new, 1))
RECURSIVE str_replace_first(_, _, _)
str_replace_first(s, old, new) ==
    IF Len(s) < Len(old) THEN s
    ELSE IF SubSeq(s, 1, Len(old)) = old
         THEN new \o SubSeq(s, Len(old) + 1, Len(s))
         ELSE <<Head(s)>> \o str_replace_first(Tail(s), old, new)

\* str.replace(old, new): every occurrence, leftmost first, not overlapping
RECURSIVE str_replace(_, _, _)
str_replace(s, old, new) ==
    IF Len(s) < Len(old) THEN s
    ELSE IF SubSeq(s, 1, Len(old)) = old
         THEN new \o str_replace(SubSeq(s, Len(old) + 1, Len(s)), old, new)
         ELSE <<Head(s)>> \o str_replace(Tail(s), old, new)

\* self.notify_map = {n.get("name"): n for n in self.notifies_raw}: of two
\* dicts with one name the later one stays
notify_map_of(raw) ==
    [name \in {raw[i].name : i \in DOMAIN raw} |->
        raw[CHOOSE i \in DOMAIN raw :
                /\ raw[i].name = name
                /\ \A j \in DOMAIN raw : raw[j].name = name => j <= i]]

\* `if failed_step and body`: both are given and not empty
Truthy(body) == body # NoBody /\ body # <<>>

\* the text of the write at line 123, without its timestamp
NotifyText(n, notify_name, failed_step) ==
    [kind |-> "NOTIFY",
     name |-> notify_name,
     email |-> n.email,
     subject |-> n.subject,
     body |-> IF failed_step # None /\ Truthy(n.body)
              THEN str_replace(n.body, Placeholder, <<failed_step>>)
              ELSE n.body,
     failed_step |-> None]

\* the text of the write at line 126, without its timestamp
MissingText(notify_name, failed_step) ==
    [kind |-> "NOTIFY-MISSING",
     name |-> notify_name,
     email |-> None,
     subject |-> None,
     body |-> <<>>,
     failed_step |-> failed_step]

\* what _emit_notify writes: n = self.notify_map.get(notify_name); if n: ...
Written(raw, notify_name, failed_step) ==
    IF notify_name \in DOMAIN notify_map_of(raw)
    THEN NotifyText(notify_map_of(raw)[notify_name], notify_name, failed_step)
    ELSE MissingText(notify_name, failed_step)

\* each write ends with one line break; the lines it adds to the file
LinesOf(text) == 1 + Occurrences(text.body, LineBreak)

\* the call: the file is opened for appending and one write is made, unless
\* opening or writing raises (the caller swallows the exception)
emit_notify(notify_name, failed_step) ==
    /\ Len(dispatches) < MaxDispatches
    /\ \E raises \in BOOLEAN :
          /\ dispatches' = Append(dispatches, [notify_name |-> notify_name,
                                               failed_step |-> failed_step,
                                               raised |-> raises])
          /\ notifications_log' =
                IF raises THEN notifications_log
                ELSE Append(notifications_log,
                            Written(notifies_raw, notify_name, failed_step))
    /\ UNCHANGED <<notifies_raw, exceptNotifier>>

\* ---- the notifiers and the dispatches
NotifierNames == {"notify_ops", "notify_dev"}
FailedSteps == {"a", "b"}

Bodies ==
    {NoBody} \cup UNION {[1..n -> BodyChars] : n \in 0..MaxBody}

\* email and subject, both given or both left out
Contacts == {<<None, None>>, <<"ops@example.com", "step failed">>}

NotifyDict(name, contact, body) ==
    [name |-> name, email |-> contact[1], subject |-> contact[2], body |-> body]

\* no notifier, one notifier with any body, or two dicts with one name
NotifierLists ==
    {<<>>}
    \cup {<<NotifyDict("notify_ops", c, b)>> : c \in Contacts, b \in Bodies}
    \cup {<<NotifyDict("notify_ops", c, <<"x">>),
            NotifyDict("notify_ops", c, Placeholder)>> : c \in Contacts}

NotifierIdle ==
    /\ notifies_raw = <<>>
    /\ notifications_log = <<>>
    /\ dispatches = <<>>

NotifierStarts ==
    /\ notifies_raw \in NotifierLists
    /\ notifications_log = <<>>
    /\ dispatches = <<>>

NextNotify ==
    \E notify_name \in NotifierNames :
        \E failed_step \in FailedSteps : emit_notify(notify_name, failed_step)

\* ============================================ the command line (src/cli.py)
MaxOptional == 2

RunBytecode == "run-bytecode"
RunParallel == "run-parallel"
RunWithMonitor == "run-with-monitor"
RunCommands == {RunBytecode, RunParallel, RunWithMonitor}

\* the status of a process that ends without sys.exit and without an
\* exception, of sys.exit(1), and of an exception nobody caught
ExitNormally == 0
ExitUsage == 1
ExitTraceback == 1

\* int(x) succeeds on the optional arguments (port, mem_limit_mb, max_workers)
IsInt(x) == x \in {"0", "2", "64"}

\* the optional arguments the command converts with int(): `int(x) if x else
\* None` skips an empty string, int(port) converts whatever it is given
Converted(args) ==
    {i \in 3..Len(args) :
        \/ args[i] # ""
        \/ (args[1] = RunWithMonitor /\ i = 3)}

\* the status the interface asks for: non-zero after a run that failed
ExitByResult(value) == IF value = "True" THEN ExitNormally ELSE ExitUsage

\* do_run_bytecode, do_run_parallel and do_run_with_monitor print the result
\* and return None; the script ends after the if/elif chain
ExitAfterRun(value) == ExitNormally

\* lines 100-150: the usage check and the dispatch on sys.argv[1]
Main ==
    /\ cli_pc = "main"
    /\ IF Len(argv) < 2
       THEN /\ cli_pc' = "exited"
            /\ exit_code' = ExitUsage
       ELSE IF argv[1] \in RunCommands
       THEN /\ cli_pc' = "setup"
            /\ UNCHANGED exit_code
       ELSE /\ cli_pc' = "exited"
            /\ exit_code' = ExitNormally
    /\ UNCHANGED <<argv, cli_ok, exceptCli>>

\* load_bytecode / do_check and the construction of the engine: a file that
\* cannot be read or checked, or an argument int() rejects, raises
Setup ==
    /\ cli_pc = "setup"
    /\ \E readable \in BOOLEAN :
          IF readable /\ \A i \in Converted(argv) : IsInt(argv[i])
          THEN /\ cli_pc' = "execute"
               /\ UNCHANGED exit_code
          ELSE /\ cli_pc' = "exited"
               /\ exit_code' = ExitTraceback
    /\ UNCHANGED <<argv, cli_ok, exceptCli>>

\* ok = vm.execute() / r.execute()
Execute ==
    /\ cli_pc = "execute"
    /\ \E value \in {"True", "False"} : cli_ok' = value
    /\ cli_pc' = "print"
    /\ UNCHANGED <<argv, exit_code, exceptCli>>

\* print("VM completed" if ok else "VM failed"), return, end of the script
PrintAndReturn ==
    /\ cli_pc = "print"
    /\ cli_pc' = "exited"
    /\ exit_code' = ExitAfterRun(cli_ok)
    /\ UNCHANGED <<argv, cli_ok, exceptCli>>

\* ---- the command lines: sys.argv[1:]
OptionalArgs == {"", "2", "64", "many"}

CommandLines ==
    {<<>>}
    \cup {<<c>> : c \in RunCommands \cup {"check"}}
    \cup UNION {{<<c, "wf.bc.json">> \o opt : opt \in [1..n -> OptionalArgs]} :
                   c \in RunCommands \cup {"check"}, n \in 0..MaxOptional}

CliIdle ==
    /\ argv = <<>>
    /\ cli_pc = "exited"
    /\ cli_ok = "unset"
    /\ exit_code = ExitNormally

CliStarts ==
    /\ argv \in CommandLines
    /\ cli_pc = "main"
    /\ cli_ok = "unset"
    /\ exit_code = ExitNormally

NextCli ==
    \/ Main
    \/ Setup
    \/ Execute
    \/ PrintAndReturn

\* ============== the threads and the lock of ParallelVM (src/flowrun/vm.py)
\* the scheduler thread runs execute(); the pool threads run _execute_step
Scheduler == "scheduler"
PoolThreads == {"pool-1", "pool-2"}

\* the scheduler's shared state, and the abort flag
SharedState == {"completed", "failed", "running_futures", "indeg"}
AbortFlag == "cancelled"

\* mutant: completed.add(step) is made without the lock
AfterResultAddsUnlocked(ok) == IF ok THEN "165" ELSE "180"

\* lines 163 and 179: if ok / else, each branch opening `with self.lock`
AfterResult(ok) == IF ok THEN "164" ELSE "180"

\* execute() from line 146 on, by line: what the statement does, the field it
\* writes, and the lines that can follow. "with" acquires self.lock, "exit"
\* leaves the with block of that line, "branch" is a test or a loop header
SchedulerCode ==
    {<<"146", "branch", None, {"147", "151"}>>,
     <<"147", "submit", None, {"148"}>>,
     <<"148", "with", None, {"149"}>>,
     <<"149", "write", "running_futures", {"exit148"}>>,
     <<"exit148", "exit", None, {"146"}>>,
     <<"151", "branch", None, {"153", "227"}>>,
     <<"153", "branch", None, {"155", "216"}>>,
     <<"155", "with", None, {"156"}>>,
     <<"156", "write", "running_futures", {"exit155"}>>,
     <<"exit155", "exit", None, {"158"}>>,
     <<"158", "branch", None, {AfterResult(TRUE), AfterResult(FALSE)}>>,
     <<"164", "with", None, {"165"}>>,
     <<"165", "write", "completed", {"exit164"}>>,
     <<"exit164", "exit", None, {"167"}>>,
     <<"167", "branch", None, {"168", "173"}>>,
     <<"168", "with", None, {"169"}>>,
     <<"169", "write", "indeg", {"exit168"}>>,
     <<"exit168", "exit", None, {"167"}>>,
     <<"173", "branch", None, {"176", "153"}>>,
     <<"176", "submit", None, {"177"}>>,
     <<"177", "with", None, {"178"}>>,
     <<"178", "write", "running_futures", {"exit177"}>>,
     <<"exit177", "exit", None, {"173"}>>,
     <<"180", "with", None, {"181"}>>,
     <<"181", "write", "failed", {"exit180"}>>,
     <<"exit180", "exit", None, {"183"}>>,
     <<"183", "branch", None, {"187", "205"}>>,
     <<"187", "write", "notifications.log", {"191"}>>,
     <<"191", "branch", None, {"192", "197"}>>,
     <<"192", "with", None, {"193"}>>,
     <<"193", "write", "indeg", {"exit192"}>>,
     <<"exit192", "exit", None, {"191"}>>,
     <<"197", "branch", None, {"200", "153"}>>,
     <<"200", "submit", None, {"201"}>>,
     <<"201", "with", None, {"202"}>>,
     <<"202", "write", "running_futures", {"exit201"}>>,
     <<"exit201", "exit", None, {"197"}>>,
     <<"205", "write", AbortFlag, {"206"}>>,
     <<"206", "with", None, {"212"}>>,
     <<"212", "write", "running_futures", {"exit206"}>>,
     <<"exit206", "exit", None, {"213"}>>,
     <<"213", "return", None, {"done"}>>,
     <<"216", "branch", None, {"218", "151"}>>,
     <<"218", "with", None, {"224"}>>,
     <<"224", "write", "running_futures", {"exit218"}>>,
     <<"exit218", "exit", None, {"225"}>>,
     <<"225", "return", None, {"done"}>>,
     <<"227", "branch", None, {"229", "231"}>>,
     <<"229", "return", None, {"done"}>>,
     <<"231", "return", None, {"done"}>>}

\* _execute_step from line 96 on: _report calls the status callback, a
\* return sets the result of the Future; no line takes the lock
WorkerCode ==
    {<<"96", "write", "status_callback", {"98"}>>,
     <<"98", "branch", None, {"99", "109"}>>,
     <<"99", "branch", None, {"100", "102"}>>,
     <<"100", "write", "status_callback", {"101"}>>,
     <<"101", "write", "future", {"idle"}>>,
     <<"102", "branch", None, {"104", "98"}>>,
     <<"104", "write", "status_callback", {"105"}>>,
     <<"105", "write", "future", {"idle"}>>,
     <<"109", "write", "status_callback", {"110"}>>,
     <<"110", "write", "future", {"idle"}>>}

Statement(code, line) ==
    LET s == CHOOSE s \in code : s[1] = line
    IN [op |-> s[2], field |-> s[3], next |-> s[4]]

Here == Statement(SchedulerCode, sched_at)

SchedulerIs(op) ==
    /\ sched_at \in {s[1] : s \in SchedulerCode}
    /\ Here.op = op

\* a write by `thread` to `field`, and whether the thread holds the lock
WriteBy(thread, field) ==
    [thread |-> thread, field |-> field, held |-> lock = thread]

\* with self.lock: the scheduler blocks until the lock is free
Acquire ==
    /\ SchedulerIs("with")
    /\ lock = "free"
    /\ lock' = Scheduler
    /\ sched_at' \in Here.next
    /\ UNCHANGED <<thread_at, work_items, writes, exceptLock>>

\* the end of the with block
Release ==
    /\ SchedulerIs("exit")
    /\ lock = Scheduler
    /\ lock' = "free"
    /\ sched_at' \in Here.next
    /\ UNCHANGED <<thread_at, work_items, writes, exceptLock>>

SchedulerWrites ==
    /\ SchedulerIs("write")
    /\ writes' = writes \cup {WriteBy(Scheduler, Here.field)}
    /\ sched_at' \in Here.next
    /\ UNCHANGED <<lock, thread_at, work_items, exceptLock>>

\* a test, a loop header or the wait for a finished future
SchedulerBranches ==
    /\ SchedulerIs("branch")
    /\ sched_at' \in Here.next
    /\ UNCHANGED <<lock, thread_at, work_items, writes, exceptLock>>

\* ex.submit(self._execute_step, name); a step is submitted once
SchedulerSubmits ==
    /\ SchedulerIs("submit")
    /\ work_items < NSteps
    /\ work_items' = work_items + 1
    /\ sched_at' \in Here.next
    /\ UNCHANGED <<lock, thread_at, writes, exceptLock>>

SchedulerReturns ==
    /\ SchedulerIs("return")
    /\ sched_at' \in Here.next
    /\ UNCHANGED <<lock, thread_at, work_items, writes, exceptLock>>

\* an idle pool thread takes a work item and enters _execute_step
ThreadTakes(t) ==
    /\ thread_at[t] = "idle"
    /\ work_items > 0
    /\ work_items' = work_items - 1
    /\ thread_at' = [thread_at EXCEPT ![t] = "96"]
    /\ UNCHANGED <<lock, sched_at, writes, exceptLock>>

ThreadWrites(t) ==
    /\ thread_at[t] # "idle"
    /\ LET s == Statement(WorkerCode, thread_at[t])
       IN /\ s.op = "write"
          /\ writes' = writes \cup {WriteBy(t, s.field)}
          /\ thread_at' \in {[thread_at EXCEPT ![t] = n] : n \in s.next}
    /\ UNCHANGED <<lock, sched_at, work_items, exceptLock>>

\* the retry loop header, the cancel/abort test, run_cmd_sandbox and `if ok`
ThreadBranches(t) ==
    /\ thread_at[t] # "idle"
    /\ LET s == Statement(WorkerCode, thread_at[t])
       IN /\ s.op = "branch"
          /\ thread_at' \in {[thread_at EXCEPT ![t] = n] : n \in s.next}
    /\ UNCHANGED <<lock, sched_at, work_items, writes, exceptLock>>

LockIdle ==
    /\ lock = "free"
    /\ sched_at = "done"
    /\ thread_at = [t \in PoolThreads |-> "idle"]
    /\ work_items = 0
    /\ writes = {}

\* the pool has just been made (line 145): no worker has been started
ThreadsStart ==
    /\ lock = "free"
    /\ sched_at = "146"
    /\ thread_at = [t \in PoolThreads |-> "idle"]
    /\ work_items = 0
    /\ writes = {}

NextLock ==
    \/ Acquire
    \/ Release
    \/ SchedulerWrites
    \/ SchedulerBranches
    \/ SchedulerSubmits
    \/ SchedulerReturns
    \/ \E t \in PoolThreads : ThreadTakes(t)
    \/ \E t \in PoolThreads : ThreadWrites(t)
    \/ \E t \in PoolThreads : ThreadBranches(t)

\* ============ the run-parallel engine (src/flowrun/runtime_parallel.py)
\* ParallelRuntime on the IR: the steps, `adj` and `indeg` are those the VM
\* builds from the same records; there is no cancel event, no status
\* callback and no notifier
\* lines 82-93: the initial ready steps, in the order of the IR
RuntimeStart ==
    /\ pc = "start"
    /\ LET ready == SetToSeq({n \in Steps : BuildIndeg(bytecode)[n] = 0})
       IN /\ adj' = BuildAdj(bytecode)
          /\ indeg' = BuildIndeg(bytecode)
          /\ IF NoReadySteps(ready)
             THEN /\ pc' = "done"
                  /\ Leave(FALSE, 85)
                  /\ UNCHANGED <<fut, queue, submits, running_futures>>
             ELSE /\ pc' = "loop"
                  /\ Submit(ready, running_futures)
                  /\ UNCHANGED <<result, exitAt>>
    /\ UNCHANGED <<otherVars, inputVars, notifyVars, workerVars, cancel_event,
                   snap, completed, failed, cancelled, fresult, events>>

\* lines 95-96 and 150-154
RuntimeLoopTest ==
    /\ pc = "loop"
    /\ IF running_futures # {}
       THEN /\ pc' = "wait"
            /\ snap' = running_futures
            /\ UNCHANGED <<result, exitAt>>
       ELSE /\ pc' = "done"
            /\ snap' = snap
            /\ IF failed # {} THEN Leave(FALSE, 152) ELSE Leave(TRUE, 154)
    /\ UNCHANGED <<otherVars, inputVars, notifyVars, workerVars, cancel_event,
                   completed, failed, running_futures, cancelled, adj, indeg,
                   fut, fresult, queue, events, submits>>

\* lines 107-122: the successors are released and submitted, unsorted
RuntimeOnSuccess(step) ==
    LET r == ReleaseFold(adj[step], indeg, <<>>)
        comp == completed \cup {step}
    IN /\ completed' = comp
       /\ indeg' = r.indeg
       /\ Submit(SelectSeq(r.newly_ready,
                           LAMBDA nr : nr \notin comp /\ nr \notin failed),
                 running_futures \ {step})
       /\ UNCHANGED <<failed, cancelled, pc, result, exitAt>>

\* lines 124-132: the failure is recorded and the handler name is printed;
\* no successor is released
RuntimeOnHandledFailure(step) ==
    /\ failed' = failed \cup {step}
    /\ running_futures' = running_futures \ {step}
    /\ UNCHANGED <<completed, cancelled, pc, result, exitAt, indeg, fut,
                   queue, submits>>

\* lines 124-127, 133-145
RuntimeOnUnhandledFailure(step) ==
    /\ failed' = failed \cup {step}
    /\ cancelled' = TRUE
    /\ CancelFutures(running_futures \ {step})
    /\ pc' = "shutdown"
    /\ Leave(FALSE, 145)
    /\ UNCHANGED <<completed, indeg, submits>>

\* lines 97-145: as_completed yields a finished future of its snapshot
RuntimeProcess(step) ==
    /\ pc = "wait"
    /\ step \in snap
    /\ fut[step] = "FINISHED"
    /\ snap' = snap \ {step}
    /\ IF fresult[step] THEN RuntimeOnSuccess(step)
       ELSE IF HasHandler(step) THEN RuntimeOnHandledFailure(step)
       ELSE RuntimeOnUnhandledFailure(step)
    /\ UNCHANGED <<otherVars, inputVars, notifyVars, workerVars, cancel_event,
                   adj, fresult, events>>

\* line 147: the for loop over the snapshot is over, back to the while test
RuntimeWaitOver ==
    /\ pc = "wait"
    /\ snap = {}
    /\ pc' = "loop"
    /\ UNCHANGED <<otherVars, inputVars, notifyVars, workerVars, cancel_event,
                   snap, completed, failed, running_futures, cancelled, adj,
                   indeg, fut, fresult, queue, events, submits, result,
                   exitAt>>

\* leaving `with ThreadPoolExecutor` at line 87 joins the threads
RuntimeShutdown ==
    /\ pc = "shutdown"
    /\ \A s \in Steps : fut[s] \notin {"PENDING", "RUNNING"}
    /\ pc' = "done"
    /\ UNCHANGED <<otherVars, inputVars, notifyVars, workerVars, cancel_event,
                   snap, completed, failed, running_futures, cancelled, adj,
                   indeg, fut, fresult, queue, events, submits, result,
                   exitAt>>

\* a pool thread takes the work item and enters _execute_step (line 55)
RuntimeWorkerStart(step_name) ==
    /\ fut[step_name] = "PENDING"
    /\ step_name \in Range(queue)
    /\ Position(queue, step_name) <= IdleThreads
    /\ fut' = [fut EXCEPT ![step_name] = "RUNNING"]
    /\ queue' = Remove(queue, step_name)
    /\ wpc' = [wpc EXCEPT ![step_name] = "check"]
    /\ attempt' = [attempt EXCEPT ![step_name] = 0]
    /\ UNCHANGED <<otherVars, inputVars, schedVars, notifyVars, cancel_event,
                   fresult, calls, outcomes, submits, events>>

\* lines 66-70: `if self.cancelled: return False`, then the sandbox
RuntimeWorkerCheck(step_name) ==
    /\ fut[step_name] = "RUNNING"
    /\ wpc[step_name] = "check"
    /\ IF cancelled
       THEN /\ Return(step_name, FALSE, "return_68")
            /\ UNCHANGED calls
       ELSE /\ wpc' = [wpc EXCEPT ![step_name] = "sandbox"]
            /\ calls' = [calls EXCEPT ![step_name] = @ + 1]
            /\ UNCHANGED <<fut, fresult>>
    /\ UNCHANGED <<otherVars, inputVars, schedVars, notifyVars, cancel_event,
                   queue, attempt, outcomes, submits, events>>

\* lines 70-75: run_cmd_sandbox returns
RuntimeWorkerSandbox(step_name) ==
    /\ fut[step_name] = "RUNNING"
    /\ wpc[step_name] = "sandbox"
    /\ \E ok \in BOOLEAN :
          /\ outcomes' = [outcomes EXCEPT ![step_name] = Append(@, ok)]
          /\ IF ok
             THEN Return(step_name, TRUE, "return_72") /\ UNCHANGED attempt
             ELSE IF attempt[step_name] + 1 < Attempts(step_name)
             THEN /\ attempt' = [attempt EXCEPT ![step_name] = @ + 1]
                  /\ wpc' = [wpc EXCEPT ![step_name] = "check"]
                  /\ UNCHANGED <<fut, fresult>>
             ELSE Return(step_name, FALSE, "return_75") /\ UNCHANGED attempt
    /\ UNCHANGED <<otherVars, inputVars, schedVars, notifyVars, cancel_event,
                   queue, calls, submits, events>>

NextRuntime ==
    \/ RuntimeStart
    \/ RuntimeLoopTest
    \/ \E step \in Steps : RuntimeProcess(step)
    \/ RuntimeWaitOver
    \/ RuntimeShutdown
    \/ \E step \in Steps : RuntimeWorkerStart(step)
    \/ \E step \in Steps : RuntimeWorkerCheck(step)
    \/ \E step \in Steps : RuntimeWorkerSandbox(step)

\* -------------------------------------------------------------------- runs
InitRun ==
    /\ notify_map = Handlers
    /\ max_workers = MaxWorkers
    /\ cancel_event = FALSE
    /\ pc = "start"
    /\ snap = {}
    /\ completed = {}
    /\ failed = {}
    /\ running_futures = {}
    /\ cancelled = FALSE
    /\ adj = [n \in Steps |-> <<>>]
    /\ indeg = [n \in Steps |-> 0]
    /\ fut = [n \in Steps |-> "NONE"]
    /\ fresult = [n \in Steps |-> FALSE]
    /\ queue = <<>>
    /\ wpc = [n \in Steps |-> "idle"]
    /\ attempt = [n \in Steps |-> 0]
    /\ calls = [n \in Steps |-> 0]
    /\ outcomes = [n \in Steps |-> <<>>]
    /\ events = [n \in Steps |-> <<>>]
    /\ submits = [n \in Steps |-> 0]
    /\ dispatched = <<>>
    /\ log = <<>>
    /\ result = FALSE
    /\ exitAt = 0

\* the components a specification leaves alone
\* ------------------------------------------- Runtime.execute (runtime.py)
\* the lists do_run can pass: instructions of distinct steps, in the order
\* semantic_check returned, each with its retries and on_error
OrderedIrs ==
    UNION {{ l \in [1..n -> [step : AllSteps, retries : 0..MaxRetries,
                             on_error : {NoHandler} \cup Handlers]] :
               \A i, j \in 1..n : i # j => l[i].step # l[j].step }
           : n \in 0..NSteps}

IrSteps == {ordered_ir[i].step : i \in DOMAIN ordered_ir}

\* Runtime.__init__: every step of the IR is PENDING
NewRuntime ==
    /\ ordered_ir \in OrderedIrs
    /\ run_state = [s \in IrSteps |-> "PENDING"]
    /\ run_at = "for"
    /\ instr_no = 0
    /\ attempts_made = 0
    /\ last_ok = FALSE
    /\ sandbox_runs = [s \in IrSteps |-> 0]
    /\ returned = "unset"

SequentialIdle ==
    /\ ordered_ir = <<>>
    /\ run_state = <<>>
    /\ run_at = "done"
    /\ instr_no = 0
    /\ attempts_made = 0
    /\ last_ok = FALSE
    /\ sandbox_runs = <<>>
    /\ returned = "unset"

\* for instr in self.ir: the next instruction, ok = False (lines 13-23)
NextInstr ==
    /\ run_at = "for"
    /\ instr_no < Len(ordered_ir)
    /\ instr_no' = instr_no + 1
    /\ attempts_made' = 0
    /\ last_ok' = FALSE
    /\ run_at' = "attempts"
    /\ UNCHANGED <<ordered_ir, run_state, sandbox_runs, returned>>

\* the list is exhausted: return True (line 35)
ListExhausted ==
    /\ run_at = "for"
    /\ instr_no = Len(ordered_ir)
    /\ returned' = "True"
    /\ run_at' = "done"
    /\ UNCHANGED <<ordered_ir, run_state, instr_no, attempts_made, last_ok,
                   sandbox_runs>>

\* one pass of for attempt in range(retries + 1): run the command, break
\* when it succeeded (lines 24-28); the command's result is not determined
\* by the runtime
OneAttempt(cmd_ok) ==
    /\ run_at = "attempts"
    /\ attempts_made < ordered_ir[instr_no].retries + 1
    /\ sandbox_runs' = [sandbox_runs EXCEPT ![ordered_ir[instr_no].step] = @ + 1]
    /\ last_ok' = cmd_ok
    /\ attempts_made' = attempts_made + 1
    /\ run_at' = IF cmd_ok \/ attempts_made' = ordered_ir[instr_no].retries + 1
                 THEN "record" ELSE "attempts"
    /\ UNCHANGED <<ordered_ir, run_state, instr_no, returned>>

\* a variant that goes on with the list after a failure that has on_error
RecordStateHandled ==
    /\ run_at = "record"
    /\ run_state' = [run_state EXCEPT ![ordered_ir[instr_no].step] =
                        IF last_ok THEN "OK" ELSE "FAILED"]
    /\ IF last_ok \/ ordered_ir[instr_no].on_error # NoHandler
       THEN run_at' = "for" /\ returned' = returned
       ELSE run_at' = "done" /\ returned' = "False"
    /\ UNCHANGED <<ordered_ir, instr_no, attempts_made, last_ok, sandbox_runs>>

\* self.state[step] = "OK" if ok else "FAILED"; if not ok: the on_error name
\* is printed and execute returns False (lines 29-34)
RecordState ==
    /\ run_at = "record"
    /\ run_state' = [run_state EXCEPT ![ordered_ir[instr_no].step] =
                        IF last_ok THEN "OK" ELSE "FAILED"]
    /\ IF last_ok
       THEN run_at' = "for" /\ returned' = returned
       ELSE run_at' = "done" /\ returned' = "False"
    /\ UNCHANGED <<ordered_ir, instr_no, attempts_made, last_ok, sandbox_runs>>

NextSequential ==
    \/ NextInstr /\ UNCHANGED exceptSequential
    \/ ListExhausted /\ UNCHANGED exceptSequential
    \/ \E cmd_ok \in BOOLEAN : OneAttempt(cmd_ok) /\ UNCHANGED exceptSequential
    \/ RecordState /\ UNCHANGED exceptSequential

RestIdle ==
    /\ NotifierIdle
    /\ CliIdle
    /\ LockIdle
    /\ SequentialIdle

Init ==
    /\ ValidBytecode(bytecode)
    /\ InitRun
    /\ CompilerIdle
    /\ SandboxIdle
    /\ RestIdle

Next ==
    \/ Start
    \/ LoopTest
    \/ \E step \in Steps : Process(step)
    \/ CancelCheck
    \/ Shutdown
    \/ \E step \in Steps : WorkerStart(step)
    \/ \E step \in Steps : WorkerCheck(step)
    \/ \E step \in Steps : WorkerSandbox(step)
    \/ SetCancel

Spec == Init /\ [][Next]_vars

\* ---- the runs in which nobody sets the cancel event and every failure is
\* ---- handled (every step has a handler, so that no run is aborted and the
\* ---- pool is left without a stop), the scheduler thread and the pool
\* ---- threads keep running, and run_cmd_sandbox returns
NextUncancelled ==
    \/ Start
    \/ LoopTest
    \/ \E step \in Steps : Process(step)
    \/ CancelCheck
    \/ \E step \in Steps : WorkerStart(step)
    \/ \E step \in Steps : WorkerCheck(step)
    \/ \E step \in Steps : WorkerSandbox(step)

\* every forward DAG, with one number of retries for all its steps, each
\* step with a handler
HandledBytecode(bc) ==
    \E deps \in ForwardDeps :
        \E r \in 0..MaxRetries :
            \E hand \in [AllSteps -> Handlers] :
                bc = StepRecords(deps, [s \in AllSteps |-> r], hand)

InitLive ==
    /\ HandledBytecode(bytecode)
    /\ InitRun
    /\ CompilerIdle
    /\ SandboxIdle
    /\ RestIdle

SpecLive ==
    InitLive /\ [][NextUncancelled]_vars /\ WF_vars(NextUncancelled)

\* ---- the runs that an unhandled failure or the cancel event may stop: the
\* ---- threads of the program keep running and run_cmd_sandbox returns; the
\* ---- embedder may set the cancel event at any moment, or never
NextScheduled ==
    \/ NextUncancelled
    \/ Shutdown

\* the chain, and two steps that start together with a third one waiting
\* for the first
StopDeps == {<<{}, {1}, {2}>>, <<{}, {}, {1}>>}

\* these DAGs, no step retried, each step with or without a handler
UnretriedBytecode(bc) ==
    \E deps \in StopDeps :
        \E hand \in [AllSteps -> {NoHandler} \cup Handlers] :
            bc = StepRecords(deps, [s \in AllSteps |-> 0], hand)

InitStop ==
    /\ UnretriedBytecode(bytecode)
    /\ InitRun
    /\ CompilerIdle
    /\ SandboxIdle
    /\ RestIdle

SpecStop == InitStop /\ [][Next]_vars /\ WF_vars(NextScheduled)

\* ---- the VM on bytecode the semantic analyzer would not have let through:
\* ---- some dependency is not a declared step, or the dependencies have a
\* ---- cycle (a persisted file that was edited or written by other means);
\* ---- no step is retried
InconsistentDeps ==
    {D \in [AllSteps -> SUBSET (AllSteps \cup {Undeclared})] :
        LET bc == StepRecords(D, [s \in AllSteps |-> 0],
                              [s \in AllSteps |-> NoHandler])
        IN ~(Resolved(bc) /\ Acyclic(bc))}

InconsistentBytecode(bc) ==
    \E deps \in InconsistentDeps :
        \E hand \in [AllSteps -> {NoHandler} \cup Handlers] :
            bc = StepRecords(deps, [s \in AllSteps |-> 0], hand)

InitLoaded ==
    /\ InconsistentBytecode(bytecode)
    /\ InitRun
    /\ CompilerIdle
    /\ SandboxIdle
    /\ RestIdle

SpecLoaded == InitLoaded /\ [][Next]_vars

\* ---- the VM on workflows of particular shapes: the empty workflow, the
\* ---- diamond, depends_on lists that name a step more than once, and
\* ---- workflows in which every step waits for another one
StepList(deps, hand) ==
    [s \in DOMAIN deps |-> [depends_on |-> deps[s],
                            retries |-> 0,
                            on_error |-> hand[s]]]

\* A -> B, A -> C, B -> D, C -> D
Diamond == <<<<>>, <<1>>, <<1>>, <<2, 3>>>>

RepeatedDeps ==
    {<<<<>>, <<1, 1>>, d>> :
        d \in {<<1, 1>>, <<2, 2>>, <<1, 2, 1>>, <<2, 1, 2>>, <<2, 2, 1>>}}

NothingReadyDeps ==
    {<<<<1>>>>, <<<<2>>, <<1>>>>, <<<<2>>, <<3>>, <<1>>>>,
     <<<<1>>, <<1>>, <<1, 2>>>>}

ShapedDeps ==
    {<<>>, Diamond} \cup RepeatedDeps \cup NothingReadyDeps

ShapedBytecode(bc) ==
    \E deps \in ShapedDeps :
        \E hand \in [DOMAIN deps -> {NoHandler} \cup Handlers] :
            bc = StepList(deps, hand)

InitShapes ==
    /\ ShapedBytecode(bytecode)
    /\ InitRun
    /\ CompilerIdle
    /\ SandboxIdle
    /\ RestIdle

SpecShapes == InitShapes /\ [][Next]_vars

\* ---- the VM on a chain next to an independent step: A and B are ready at
\* ---- the start, C waits for A and D waits for C
ChainBesideStep == <<<<>>, <<>>, <<1>>, <<3>>>>

InitBeside ==
    /\ \E hand \in [DOMAIN ChainBesideStep -> {NoHandler} \cup Handlers] :
          bytecode = StepList(ChainBesideStep, hand)
    /\ InitRun
    /\ CompilerIdle
    /\ SandboxIdle
    /\ RestIdle

SpecBeside == InitBeside /\ [][Next]_vars

\* ---- the compiler alone
VmIdle ==
    /\ bytecode = StepRecords([s \in AllSteps |-> {}], [s \in AllSteps |-> 0],
                              [s \in AllSteps |-> NoHandler])
    /\ InitRun

InitCompile ==
    /\ CompilerStarts
    /\ VmIdle
    /\ SandboxIdle
    /\ RestIdle

SpecCompile == InitCompile /\ [][NextCompile]_vars

\* ---- the sandbox alone
InitSandbox ==
    /\ SandboxStarts
    /\ VmIdle
    /\ CompilerIdle
    /\ RestIdle

SpecSandbox == InitSandbox /\ [][NextSandbox]_vars

\* ---- Notifier Dispatch alone
InitNotify ==
    /\ NotifierStarts
    /\ VmIdle
    /\ CompilerIdle
    /\ SandboxIdle
    /\ CliIdle
    /\ LockIdle
    /\ SequentialIdle

SpecNotify == InitNotify /\ [][NextNotify]_vars

\* ---- the command line alone
InitCli ==
    /\ CliStarts
    /\ VmIdle
    /\ CompilerIdle
    /\ SandboxIdle
    /\ NotifierIdle
    /\ LockIdle
    /\ SequentialIdle

SpecCli == InitCli /\ [][NextCli]_vars

\* ---- the run-parallel engine on the IR of a checked workflow
InitRuntime ==
    /\ ValidBytecode(bytecode)
    /\ InitRun
    /\ CompilerIdle
    /\ SandboxIdle
    /\ RestIdle

SpecRuntime == InitRuntime /\ [][NextRuntime]_vars

\* ---- the run-parallel engine on an IR list that names a dependency no step
\* ---- declares, or whose dependencies have a cycle
InitRuntimeLoaded ==
    /\ InconsistentBytecode(bytecode)
    /\ InitRun
    /\ CompilerIdle
    /\ SandboxIdle
    /\ RestIdle

SpecRuntimeLoaded == InitRuntimeLoaded /\ [][NextRuntime]_vars

\* ---- the sequential Runtime alone
InitSequential ==
    /\ NewRuntime
    /\ VmIdle
    /\ CompilerIdle
    /\ SandboxIdle
    /\ NotifierIdle
    /\ CliIdle
    /\ LockIdle

SpecSequential == InitSequential /\ [][NextSequential]_vars

\* ---- the threads of the VM alone
InitLock ==
    /\ ThreadsStart
    /\ VmIdle
    /\ CompilerIdle
    /\ SandboxIdle
    /\ NotifierIdle
    /\ CliIdle
    /\ SequentialIdle

SpecLock == InitLock /\ [][NextLock]_vars

\* ------------------------------------------------------------------ claims
Queued == <<"queued">>
QueuedRunning == <<"queued", "running">>
RunSucceeded == <<"queued", "running", "succeeded">>
RunFailed == <<"queued", "running", "failed">>

Handled(d) == bytecode[d].on_error # NoHandler

\* the step has been handed to the pool, is running or has run
Submitted(s) ==
    \/ submits[s] > 0
    \/ fut[s] # "NONE"
    \/ "running" \in Range(events[s])
    \/ calls[s] > 0

\* the scheduler has processed the completion of d and lets successors pass
Terminated(d) == d \in completed \/ (d \in failed /\ Handled(d))

\* every step some unhandled failure made the run abort on
Aborters == {s \in failed : ~Handled(s)}

Dependents(s) == {t \in Steps : s \in TransitiveDeps(bytecode, t)}

NeverSucceeded(s) == \A i \in DOMAIN outcomes[s] : ~outcomes[s][i]

DispatchesFor(s) == {i \in DOMAIN dispatched : dispatched[i][2] = s}

\* C1: a step is submitted to the pool (and so can report RUNNING or invoke
\* the sandbox) only after every step of its depends_on is in `completed`, or
\* is in `failed` and has an on_error handler.
C1_StartsAfterDeps ==
    \A s \in Steps :
        Submitted(s) => \A d \in DependsOn(bytecode, s) : Terminated(d)

\* a step with two dependencies was submitted after one of them succeeded
\* and the other failed with a handler
C1_Witness ==
    \E s \in Steps :
        /\ submits[s] = 1
        /\ \E d1, d2 \in DependsOn(bytecode, s) :
              d1 \in completed /\ d2 \in failed /\ Handled(d2)

\* the failed completion of s has been taken off running_futures while the
\* run was going on (not by the clear() of an abort or cancel)
ProcessedFailure(s) ==
    /\ fut[s] = "FINISHED"
    /\ ~fresult[s]
    /\ submits[s] > 0
    /\ s \notin running_futures

\* C2: when a step without on_error fails, it is added to `failed`, the abort
\* flag is set, the running set is emptied and execute returns the abort
\* result; nothing is submitted once the flag is set (no work item is left
\* waiting), and no transitive dependent of the failed step ever gets a
\* QUEUED or RUNNING event.
C2_UnhandledFailureAborts ==
    /\ \A s \in Steps :
          (ProcessedFailure(s) /\ ~Handled(s)) => exitAt \in {213, 225}
    /\ exitAt = 213 <=> Aborters # {}
    /\ cancelled <=> Aborters # {}
    /\ Cardinality(Aborters) <= 1
    /\ \A s \in Aborters :
          /\ running_futures = {}
          /\ \A u \in Steps : fut[u] # "PENDING"
          /\ queue = <<>>
          /\ pc \in {"shutdown", "done"}
          /\ result = AbortResult
          /\ exitAt = 213
          /\ \A t \in Dependents(s) : events[t] = <<>> /\ submits[t] = 0

\* an aborted run has returned: the failed step has a dependent, and a work
\* item that no thread had started was cancelled
C2_Witness ==
    /\ pc = "done"
    /\ \E s \in Aborters : Dependents(s) # {}
    /\ \E u \in Steps : fut[u] = "CANCELLED"

\* entries of n.depends_on whose step the scheduler has not let pass yet
Unresolved(n) ==
    Cardinality({i \in DOMAIN bytecode[n].depends_on :
                    ~Terminated(bytecode[n].depends_on[i])})

\* C3: when a step with an on_error handler fails, it is added to `failed`,
\* the notifier is dispatched exactly once with the handler name and the step
\* name, the run is not aborted, and the successors are released exactly as
\* on success (their counter no longer counts the step, and a successor at
\* zero is submitted), whether or not the dispatch raises.
C3_HandledFailureContinues ==
    /\ \A s \in Steps :
          (ProcessedFailure(s) /\ Handled(s) /\ exitAt \notin {213, 225})
          => s \in failed
    /\ \A s \in Steps :
          IF s \in failed /\ Handled(s)
          THEN /\ Cardinality(DispatchesFor(s)) = 1
               /\ \A i \in DispatchesFor(s) :
                     dispatched[i] = <<bytecode[s].on_error, s>>
               /\ \A n \in Steps :
                     s \in DependsOn(bytecode, n)
                     => /\ indeg[n] = Unresolved(n)
                        /\ indeg[n] = 0 => submits[n] = 1
          ELSE DispatchesFor(s) = {}
    /\ cancelled => Aborters # {}

\* a handled failure whose dispatch raised (nothing was logged), and a
\* successor of the failed step has been submitted
C3_Witness ==
    \E s \in failed :
        /\ Handled(s)
        /\ Len(dispatched) = 1
        /\ log = <<>>
        /\ \E n \in Steps : s \in DependsOn(bytecode, n) /\ submits[n] = 1

\* C4: a step with retries = k whose command never succeeds has had exactly
\* k + 1 sandbox invocations whenever the scheduler has put it in `failed`.
C4_FailedAfterAllAttempts ==
    \A s \in failed :
        NeverSucceeded(s) => calls[s] = bytecode[s].retries + 1

\* C5: the worker returns success at the first successful attempt: when the
\* i-th invocation is the first to succeed, the sandbox has been invoked
\* exactly i times, no further attempt follows, and the status events of the
\* step are QUEUED, RUNNING, SUCCEEDED.
C5_ReturnsOnFirstSuccess ==
    \A s \in Steps :
        \A i \in DOMAIN outcomes[s] :
            outcomes[s][i]
            => /\ i = Len(outcomes[s])
               /\ calls[s] = i
               /\ i <= bytecode[s].retries + 1
               /\ fut[s] = "FINISHED"
               /\ fresult[s]
               /\ events[s] = RunSucceeded

\* a step succeeded on its last attempt, after failed ones
C5_Witness ==
    \E s \in Steps :
        /\ bytecode[s].retries = MaxRetries
        /\ Len(outcomes[s]) = MaxRetries + 1
        /\ outcomes[s][MaxRetries + 1]
        /\ fut[s] = "FINISHED"

\* C6: in every run the status events of a step are a prefix of QUEUED,
\* RUNNING, terminal (SUCCEEDED or FAILED).
C6_EventOrder ==
    \A s \in Steps :
        events[s] \in {<<>>, Queued, QueuedRunning, RunSucceeded, RunFailed}

\* an aborted run that has returned with a step that was only queued, next to
\* one with a terminal event
C6_Witness ==
    /\ pc = "done"
    /\ exitAt = 213
    /\ \E s, t \in Steps : events[s] = Queued /\ events[t] = RunFailed

\* C7 as stated: without the cancel signal, every step has its three status
\* events when execute returns.
C7_ThreeEventsUnlessCancelled ==
    (pc = "done" /\ ~cancel_event)
    => \A s \in Steps : events[s] \in {RunSucceeded, RunFailed}

\* C7, amended: without the cancel signal and without an abort by an
\* unhandled failure, every step of resolved acyclic bytecode has its three
\* status events when execute returns.
C7_ThreeEventsUnlessStopped ==
    (pc = "done" /\ ~cancel_event /\ Aborters = {}
       /\ Resolved(bytecode) /\ Acyclic(bytecode))
    => \A s \in Steps : events[s] \in {RunSucceeded, RunFailed}

\* a run with a handled failure and successes has come to its end
C7_Witness ==
    /\ pc = "done"
    /\ ~cancel_event
    /\ Aborters = {}
    /\ failed # {}
    /\ completed # {}

\* C8: the value execute returns tells the three outcomes apart: success,
\* abort by an unhandled failure, stop by the cancel signal.
C8_DistinctResults ==
    pc = "done"
    => /\ exitAt = 231 => result \notin {AbortResult, CancelResult}
       /\ exitAt = 213 => result \notin {SuccessResult, CancelResult}
       /\ exitAt = 225 => result \notin {SuccessResult, AbortResult}

\* C9: without the cancel signal and with a handler on every failing step,
\* every step is run and execute returns a result other than the abort result.
C9_HandledFailureNotAbort ==
    (pc = "done" /\ ~cancel_event /\ Aborters = {})
    => /\ \A s \in Steps : "running" \in Range(events[s])
       /\ result # AbortResult

\* C10: a step whose worker returned failure only because it saw the cancel
\* signal is not added to `failed`, has no notifier dispatched and releases
\* no successor.
C10_CancelMarksNoFailure ==
    \A s \in Steps :
        wpc[s] = "return_101"
        => /\ s \notin failed
           /\ DispatchesFor(s) = {}
           /\ \A n \in Steps :
                 s \in DependsOn(bytecode, n) => ~Submitted(n)

\* ------------------------------------------------- claims on the compiler
Declared == workflow.steps

UniqueNames ==
    \A i, j \in DOMAIN Declared :
        Declared[i].name = Declared[j].name => i = j

AllResolved ==
    \A i \in DOMAIN Declared :
        Range(Declared[i].depends_on) \subseteq Names(Declared)

\* what the steps named n list in depends_on
DeclaredDeps(n) ==
    UNION {Range(Declared[i].depends_on) :
              i \in {j \in DOMAIN Declared : Declared[j].name = n}}

RECURSIVE DepsWithin(_, _)
\* the names reached from the names of S along depends_on in at most k steps
DepsWithin(S, k) ==
    IF k = 0 THEN S
    ELSE DepsWithin(S \cup UNION {DeclaredDeps(n) : n \in S}, k - 1)

\* the names on a dependency cycle
OnCycle ==
    {n \in Names(Declared) : n \in DepsWithin(DeclaredDeps(n), Len(Declared))}

\* the banned patterns as the specification words them, an operator being
\* counted wherever it stands
ContainsRmRf(cmd) ==
    \E i, j \in DOMAIN cmd :
        /\ i + 2 < j
        /\ cmd[i] = "r" /\ cmd[i + 1] = "m"
        /\ \A k \in (i + 2)..(j - 1) : cmd[k] \in Whitespace
        /\ j + 2 \in DOMAIN cmd
        /\ cmd[j] = "-" /\ cmd[j + 1] = "r" /\ cmd[j + 2] = "f"

ContainsAppend(cmd) ==
    \E i \in DOMAIN cmd : i + 1 \in DOMAIN cmd /\ cmd[i] = ">" /\ cmd[i + 1] = ">"

NoCommandGiven(s) == s.run \in {NoCommand, <<>>}

Harmless(s) ==
    \/ NoCommandGiven(s)
    \/ /\ ~ContainsRmRf(s.run)
       /\ ~ContainsAppend(s.run)
       /\ Range(s.run) \cap {"|", "&", Backtick} = {}

Checked == cpc # "parsed"

Accepted == Checked /\ error = NoError

\* C11: for a workflow with unique step names, every dependency resolved,
\* no cycle and no banned command, semantic_check returns an order that is a
\* permutation of the step names in which every step comes after all the
\* steps of its depends_on.
C11_OrderIsTopological ==
    (/\ Checked
     /\ UniqueNames
     /\ AllResolved
     /\ OnCycle = {}
     /\ \A i \in DOMAIN Declared : Harmless(Declared[i]))
    => /\ error = NoError
       /\ Len(order) = Len(Declared)
       /\ Range(order) = Names(Declared)
       /\ \A a, b \in DOMAIN order : order[a] = order[b] => a = b
       /\ \A i \in DOMAIN Declared :
             \A d \in Range(Declared[i].depends_on) :
                 Position(order, d) < Position(order, Declared[i].name)

\* an accepted workflow whose order is not the order of declaration and
\* which has a step with two dependencies
C11_Witness ==
    /\ Accepted
    /\ Len(order) = NSteps
    /\ order[1] # Declared[1].name
    /\ \E i \in DOMAIN Declared : Len(Declared[i].depends_on) = 2

RECURSIVE SmallestReadyFirst(_, _)
\* the reference order: again and again the smallest name among the steps
\* not yet emitted whose dependencies have all been emitted
SmallestReadyFirst(emitted, ord) ==
    LET ready == {n \in Names(Declared) \ emitted :
                     DeclaredDeps(n) \subseteq emitted}
    IN IF ready = {} THEN ord
       ELSE SmallestReadyFirst(emitted \cup {MinOf(ready)},
                               Append(ord, MinOf(ready)))

Reversed(q) == [i \in DOMAIN q |-> q[Len(q) + 1 - i]]

\* the same dependencies as listed, in reverse, or each listed twice
Relist(q, mode) ==
    CASE mode = "same" -> q
      [] mode = "reversed" -> Reversed(q)
      [] mode = "repeated" -> q \o Reversed(q)

\* the workflows with the declarations of `workflow` in any order and their
\* depends_on lists relisted
Redeclared ==
    {[workflow EXCEPT !.steps =
         [i \in DOMAIN Declared |->
             [Declared[f[i]] EXCEPT !.depends_on = Relist(@, mode[i])]]] :
        f \in Permutations(DOMAIN Declared),
        mode \in [DOMAIN Declared -> {"same", "reversed", "repeated"}]}

\* C12: the order semantic_check returns is the reference order (the
\* smallest ready name first), so it depends on the dependency graph only:
\* declaring the steps in another order, or relisting or repeating the
\* names inside a depends_on list, gives the same order.
C12_OrderIsCanonical ==
    Accepted
    => /\ order = SmallestReadyFirst({}, <<>>)
       /\ \A wf \in Redeclared : semantic_check(wf).order = order

\* an accepted workflow that declares its largest name first, where two
\* steps are ready at the start and one step lists two dependencies
C12_Witness ==
    /\ Accepted
    /\ Declared[1].name = NSteps
    /\ order[1] = 1
    /\ Cardinality({i \in DOMAIN Declared : Declared[i].depends_on = <<>>}) = 2
    /\ \E i \in DOMAIN Declared : Len(Declared[i].depends_on) = 2

\* C13: semantic_check rejects with a SemanticError, and returns no order,
\* every workflow whose dependencies have a cycle of any length, a step
\* that depends on itself included, also next to steps that can be ordered;
\* when the names are unique and resolved, the error is the cycle error.
C13_CycleRejected ==
    (Checked /\ OnCycle # {})
    => /\ cpc = "rejected"
       /\ error # NoError
       /\ order = <<>>
       /\ (UniqueNames /\ AllResolved) => error = CycleError

\* a rejected workflow in which one step depends on itself and on nothing
\* else, next to a step without dependencies and a step that depends on it
C13_Witness ==
    /\ cpc = "rejected"
    /\ error = CycleError
    /\ \E i, j, k \in DOMAIN Declared :
          /\ Declared[i].depends_on = <<Declared[i].name>>
          /\ Declared[j].depends_on = <<>>
          /\ Declared[k].depends_on = <<Declared[j].name>>

\* a command with one of the patterns that are banned wherever they stand
DefinitelyBanned(s) ==
    /\ ~NoCommandGiven(s)
    /\ \/ ContainsRmRf(s.run)
       \/ ContainsAppend(s.run)
       \/ Backtick \in Range(s.run)

\* C14: the validations are applied in the order duplicate names,
\* unresolved dependency, cycle, banned command, and the one error raised
\* is that of the first check the workflow violates.
C14_FirstViolationReported ==
    Checked
    => /\ ~UniqueNames => error = DuplicateError
       /\ (UniqueNames /\ ~AllResolved) => error = MissingError
       /\ (UniqueNames /\ AllResolved /\ OnCycle # {}) => error = CycleError
       /\ (/\ UniqueNames /\ AllResolved /\ OnCycle = {}
           /\ \E i \in DOMAIN Declared : DefinitelyBanned(Declared[i]))
          => error = BannedError
       /\ error \in {NoError, DuplicateError, MissingError, CycleError,
                     BannedError}

\* a workflow with a cycle and a banned command, rejected for the cycle
C14_Witness ==
    /\ cpc = "rejected"
    /\ error = CycleError
    /\ \E i \in DOMAIN Declared : DefinitelyBanned(Declared[i])

\* C15: an otherwise valid workflow is rejected with the banned-pattern
\* error when the non-empty command of some step holds, anywhere, rm
\* followed by whitespace and -rf, or >>, or a backtick; and a workflow whose
\* steps have no command or an empty one is never rejected with that error.
C15_BannedCommandRejected ==
    Checked
    => /\ (/\ UniqueNames /\ AllResolved /\ OnCycle = {}
           /\ \E i \in DOMAIN Declared : DefinitelyBanned(Declared[i]))
          => (cpc = "rejected" /\ error = BannedError /\ order = <<>>)
       /\ (\A i \in DOMAIN Declared : NoCommandGiven(Declared[i]))
          => error # BannedError

\* rejected for rm, several whitespace characters, -rf inside a command
C15_Witness ==
    /\ cpc = "rejected"
    /\ error = BannedError
    /\ \E i \in DOMAIN Declared : Declared[i].run = CmdRmTabRf

\* ------------------------------------- claims on the VM, loaded bytecode
\* C16: when a step of the loaded bytecode lists in depends_on a name that
\* is not a declared step, execute returns failure without submitting a
\* step, without invoking the sandbox and without a status event.
C16_UnknownDependencyFails ==
    ~Resolved(bytecode)
    => /\ pc \in {"start", "done"}
       /\ pc = "done" => (result = FALSE /\ exitAt = 134)
       /\ \A s \in Steps :
             /\ submits[s] = 0
             /\ fut[s] = "NONE"
             /\ calls[s] = 0
             /\ events[s] = <<>>

\* execute has returned on bytecode with an undeclared dependency in which
\* another step has no dependency at all
C16_Witness ==
    /\ pc = "done"
    /\ ~Resolved(bytecode)
    /\ \E s \in Steps : bytecode[s].depends_on = <<>>

\* C17: when the dependencies of the loaded bytecode have a cycle, execute
\* does not return the all-succeeded result while a step was never run.
C17_CycleNeverSucceeds ==
    (pc = "done" /\ Resolved(bytecode) /\ ~Acyclic(bytecode))
    => ~(/\ result = SuccessResult
         /\ \E s \in Steps : calls[s] = 0 /\ events[s] = <<>>)

\* ------------------------------------------------ claims on the round trip
\* C18: for an accepted workflow, what is read back from the emitted file
\* is the emitted instruction list field by field, the Step objects built
\* from it carry the fields of the declared steps, a notifies list that was
\* not written reads back as empty, and the graph the VM builds is the
\* graph of the declared steps.
C18_RoundTrip ==
    /\ cpc \in {"loaded", "built"}
       => /\ Len(loaded.steps_raw) = Len(ir)
          /\ \A i \in DOMAIN ir :
                /\ DOMAIN loaded.steps_raw[i] = DOMAIN ir[i]
                /\ loaded.steps_raw[i].op = ir[i].op
                /\ loaded.steps_raw[i].step = ir[i].step
                /\ loaded.steps_raw[i].cmd = ir[i].cmd
                /\ loaded.steps_raw[i].timeout = ir[i].timeout
                /\ loaded.steps_raw[i].retries = ir[i].retries
                /\ loaded.steps_raw[i].depends_on = ir[i].depends_on
                /\ loaded.steps_raw[i].on_error = ir[i].on_error
          /\ loaded.step_objs = Declared
          /\ loaded.notifies_raw = NotifyDicts(workflow.notifies)
    /\ cpc = "built"
       => /\ graph.error = NoError
          /\ graph = build_graph(Declared)
          /\ \A n \in Names(Declared) :
                /\ graph.indeg[n] = Cardinality(DeclaredDeps(n))
                /\ Range(graph.adj[n])
                      = {m \in Names(Declared) : n \in DeclaredDeps(m)}

\* a workflow without notifiers has gone through the round trip: the file
\* has no notifies key, a step has no command, another has a timeout, a
\* retry and two dependencies
C18_Witness ==
    /\ cpc = "built"
    /\ workflow.notifies = <<>>
    /\ "notifies" \notin DOMAIN file.v
    /\ \E i, j \in DOMAIN Declared :
          /\ Declared[i].run = NoCommand
          /\ Declared[j].timeout # None
          /\ Declared[j].retries > 0
          /\ Len(Declared[j].depends_on) = 2

\* ------------------------------------------------- claims on the sandbox
Returning == spc \in {"collect", "returned"}

KillsFor(reason) == {k \in DOMAIN kills : kills[k].reason = reason}

\* C19: run_cmd_sandbox returns success only if the child exited by itself
\* with status zero and the supervisor saw no timeout and no memory
\* violation; when the supervisor kills the process for the timeout or the
\* memory ceiling, or the child exits non-zero, the result is failure.
C19_SuccessMeansCleanExit ==
    Returning
    => /\ success => (proc = "exited" /\ returncode = 0 /\ kills = <<>>)
       /\ kills # <<>> => ~success
       /\ (proc = "exited" /\ returncode # 0) => ~success

\* a command run under both limits has exited with status zero after the
\* supervisor had slept, and the sandbox has returned success
C19_Witness ==
    /\ spc = "returned"
    /\ success
    /\ timeout # NoLimit
    /\ mem_limit_mb # NoLimit
    /\ ticks > 1

\* a step of the supervisor or of the clock, none of the child
SupervisorStep ==
    \/ Monitor
    \/ BlockingWait
    \/ TimePasses
    \/ TimeoutCheck
    \/ PollCheck
    \/ MemoryCheck
    \/ Sleep
    \/ Collect

\* C20: with a timeout, the supervisor goes on with no poll tick at which
\* the elapsed time exceeds the timeout: at the first such tick it requests
\* the kill and returns failure, whatever the child did and whether or not
\* the kill succeeds; so the number of ticks and the elapsed time of an
\* invocation with a timeout are bounded, and until it has returned the
\* supervisor never waits for the child to take its next step.
C20_TimeoutEndsTheRun ==
    timeout # NoLimit
    => /\ spc \in {"poll", "memory", "sleep", "wait"} => now <= timeout
       /\ (Returning /\ now > timeout)
          => (~success /\ KillsFor("timeout") # {})
       /\ ticks <= timeout + 2
       /\ now <= timeout + MaxOversleep
       /\ spc # "returned" => ENABLED SupervisorStep

\* the longest timeout has run out, the kill has failed and the child is
\* still running: the sandbox has returned failure
C20_Witness ==
    /\ spc = "returned"
    /\ timeout = MaxTimeout
    /\ ticks = timeout + 2
    /\ ~success
    /\ kills = <<[reason |-> "timeout", delivered |-> FALSE]>>
    /\ proc = "running"

\* ------------------------------------------------- claims on the notifier
WrittenDispatches == SelectSeq(dispatches, LAMBDA d : ~d.raised)

Declares(name) == \E i \in DOMAIN notifies_raw : notifies_raw[i].name = name

\* the declaration of the name that counts: the last one
DeclaredNotifier(name) ==
    notifies_raw[CHOOSE i \in DOMAIN notifies_raw :
                    /\ notifies_raw[i].name = name
                    /\ \A j \in DOMAIN notifies_raw :
                          notifies_raw[j].name = name => j <= i]

HasPlaceholder(text) ==
    \E i \in 1..(Len(text) - 1) : text[i] = Dollar /\ text[i + 1] = Braces

\* the text with the placeholder put back wherever the step name stands
RECURSIVE Unsubstituted(_, _)
Unsubstituted(text, step) ==
    IF text = <<>> THEN <<>>
    ELSE (IF Head(text) = step THEN Placeholder ELSE <<Head(text)>>)
         \o Unsubstituted(Tail(text), step)

\* the record is the one the dispatch d has to leave in the log
RecordOf(text, d) ==
    IF Declares(d.notify_name)
    THEN LET n == DeclaredNotifier(d.notify_name)
         IN /\ text.kind = "NOTIFY"
            /\ text.name = d.notify_name
            /\ text.email = n.email
            /\ text.subject = n.subject
            /\ IF n.body = NoBody THEN text.body = NoBody
               ELSE /\ ~HasPlaceholder(text.body)
                    /\ Unsubstituted(text.body, d.failed_step) = n.body
    ELSE /\ text.kind = "NOTIFY-MISSING"
         /\ text.name = d.notify_name
         /\ text.failed_step = d.failed_step

RECURSIVE TotalLines(_)
TotalLines(texts) ==
    IF texts = <<>> THEN 0 ELSE LinesOf(Head(texts)) + TotalLines(Tail(texts))

C22_ExitCodeTellsResult ==
    (cli_pc = "exited" /\ argv # <<>> /\ argv[1] \in RunCommands
       /\ cli_ok # "unset")
    => (exit_code = 0 <=> cli_ok = "True")

\* ------------------------------------- claims on workflows of given shapes
\* the run came to its end: no abort, no stop by the cancel signal
RanToEnd == pc = "done" /\ exitAt \in {229, 231}

\* C23: each step is submitted to the pool at most once, and exactly once in
\* a run over an acyclic graph that is neither aborted nor cancelled, also
\* when it has several predecessors or its depends_on names a step more than
\* once; it is submitted only after every step it depends on has terminated
\* (in the diamond, the last step runs once, after both middle steps).
C23_SubmittedOnce ==
    /\ \A s \in Steps :
          /\ submits[s] <= 1
          /\ Occurrences(events[s], "running") <= 1
          /\ calls[s] <= bytecode[s].retries + 1
          /\ Submitted(s) => \A d \in DependsOn(bytecode, s) : Terminated(d)
    /\ (RanToEnd /\ Resolved(bytecode) /\ Acyclic(bytecode))
       => \A s \in Steps : submits[s] = 1

\* the diamond has run to its end: one middle step succeeded, the other one
\* failed with a handler, and the last step was submitted and run once
C23_Witness ==
    /\ RanToEnd
    /\ [s \in Steps |-> bytecode[s].depends_on] = Diamond
    /\ 2 \in completed
    /\ 3 \in failed
    /\ submits[4] = 1
    /\ calls[4] = 1
    /\ events[4] \in {RunSucceeded, RunFailed}

\* the steps of the initial ready list
InitialReady == {n \in Steps : bytecode[n].depends_on = <<>>}

\* C24: when the initial ready set is empty, no step is submitted and no
\* status event is emitted, and execute returns success exactly when there
\* is no step at all.
C24_NothingReady ==
    (GraphBuilds(bytecode) /\ InitialReady = {})
    => /\ \A s \in Steps : submits[s] = 0 /\ events[s] = <<>> /\ calls[s] = 0
       /\ (Steps # {} /\ pc # "start") => (pc = "done" /\ exitAt = 143)
       /\ pc = "done" => (result <=> Steps = {})

\* the empty workflow has returned success
C24_Witness ==
    /\ pc = "done"
    /\ Steps = {}
    /\ result
    /\ exitAt = 231

\* ----------------------------------------- more claims on the sandbox
\* the child ended by itself with status 0, in time and within the ceiling
CleanExitInTime ==
    /\ exited_at # NotExited
    /\ returncode = 0
    /\ timeout # NoLimit => exited_at <= timeout
    /\ mem_limit_mb # NoLimit => peak_rss <= mem_limit_mb * MiB

\* C25: a child that exits with status 0 at a time not exceeding the timeout
\* and never exceeds the memory ceiling makes run_cmd_sandbox return
\* success, whenever the next tick of the supervisor observes the exit.
C25_CleanExitSucceeds ==
    (spc = "returned" /\ CleanExitInTime) => success

LastKill == kills[Len(kills)]

\* the memory check of a tick is passed, to the sleep or to the return
MemoryChecked == spc = "memory" /\ spc' # "memory"

\* the memory check ends the run: the tree is killed, failure is returned
KilledForMemory ==
    /\ Len(kills') = Len(kills) + 1
    /\ kills'[Len(kills')].reason = "memory"
    /\ spc' = "collect"
    /\ ~success'

\* C26 as stated: with a memory limit, a tick that finds the process alive
\* and the resident size of its tree over the limit kills the tree and
\* returns failure; a tree that stays at or below the limit is never killed
\* for memory.
C26_CeilingEnforced ==
    /\ [](KillsFor("memory") # {}
            => mem_limit_mb # NoLimit /\ peak_rss > mem_limit_mb * MiB)
    /\ [][(MemoryChecked /\ proc = "running" /\ OverCeiling(rss))
             => KilledForMemory]_vars

\* C26, amended: the same, for a supervisor that has the psutil wrapper of
\* the process; without it the size is taken as 0 and no tick kills for
\* memory.
C26_CeilingEnforcedWhenMeasured ==
    /\ [](KillsFor("memory") # {}
            => mem_limit_mb # NoLimit /\ peak_rss > mem_limit_mb * MiB /\ p)
    /\ [][(MemoryChecked /\ proc = "running" /\ OverCeiling(rss))
             => IF p THEN KilledForMemory ELSE kills' = kills]_vars
    /\ [][(MemoryChecked /\ ~OverCeiling(rss)) => kills' = kills]_vars

\* a tree over the ceiling was killed at a tick after the first one and the
\* sandbox has returned failure
C26_Witness ==
    /\ spc = "returned"
    /\ ~success
    /\ p
    /\ ticks > 1
    /\ kills # <<>>
    /\ LastKill = [reason |-> "memory", delivered |-> TRUE]
    /\ proc = "exited"
    /\ returncode = Killed

\* ------------------------------------------------ more claims on the VM
\* a step in `failed` was submitted once, its future is finished with False,
\* and it is not in `completed`
FailedForGood(s) ==
    /\ s \notin completed
    /\ submits[s] = 1
    /\ fut[s] = "FINISHED"
    /\ ~fresult[s]

\* C28: an on_error handler never reruns the failed step and never alters
\* its FAILED status: a step in `failed` stays there for the rest of the
\* run, is never added to `completed`, is never submitted again (nor run
\* again), and `completed` and `failed` are disjoint in every state.
C28_FailedStaysFailed ==
    /\ [](completed \cap failed = {})
    /\ [](\A s \in failed : FailedForGood(s))
    /\ [][/\ failed \subseteq failed'
          /\ \A s \in failed :
                /\ s \notin completed'
                /\ submits'[s] = submits[s]
                /\ calls'[s] = calls[s]
                /\ fut'[s] = fut[s]]_vars

\* the run is over, a step with a handler failed after both its attempts,
\* and a dependent of it ran afterwards and completed
C28_Witness ==
    /\ pc = "done"
    /\ \E s \in failed :
          /\ HasHandler(s)
          /\ calls[s] = 2
          /\ \E d \in completed : s \in Range(bytecode[d].depends_on)
          /\ \E i \in DOMAIN dispatched : dispatched[i][2] = s

\* the cancel signal or the abort flag is set
FlagSet == cancel_event \/ cancelled

\* C29: once the cancel signal or the abort flag is set it stays set and no
\* pre-attempt check passes any more, so a worker running at that moment
\* begins at most the one sandbox invocation whose check came before the
\* flag; a check that observes the flag returns failure without invoking
\* the sandbox, and a worker that reaches its first check with the flag set
\* has invoked the sandbox zero times when it returns failure.
C29_NoAttemptAfterFlag ==
    /\ [][FlagSet => (FlagSet' /\ calls' = calls)]_vars
    /\ [][\A s \in Steps :
            (FlagSet /\ wpc[s] = "check" /\ wpc'[s] # "check")
                => /\ wpc'[s] = "return_101"
                   /\ fut'[s] = "FINISHED"
                   /\ ~fresult'[s]]_vars
    /\ [](\A s \in Steps :
            wpc[s] = "return_101"
                => ~fresult[s] /\ calls[s] = attempt[s] /\ FlagSet)
    /\ [](\A s \in Steps :
            wpc[s] = "sandbox"
                => calls[s] = attempt[s] + 1 /\ Len(outcomes[s]) = attempt[s])

\* with the cancel event set, one worker came to its first check and
\* returned failure without a sandbox call, and another one, whose first
\* attempt was under way, returned failure at the check before its retry
C29_Witness ==
    /\ cancel_event
    /\ \E s \in Steps :
          /\ wpc[s] = "return_101"
          /\ attempt[s] = 0
          /\ calls[s] = 0
          /\ \E u \in Steps :
                /\ wpc[u] = "return_101"
                /\ attempt[u] = 1
                /\ calls[u] = 1
                /\ outcomes[u] = <<FALSE>>

\* --------------------------------------- the lock discipline of the VM
\* C27: once workers have been started, every write to the scheduler's
\* shared state (completed, failed, running_futures, indeg) is made by the
\* scheduler thread while it holds the lock; pool threads write none of
\* these nor the abort flag, only the status callback and the result of
\* their Future.
C27_LockDiscipline ==
    /\ \A w \in writes :
          w.field \in SharedState => (w.thread = Scheduler /\ w.held)
    /\ \A w \in writes :
          w.thread \in PoolThreads => w.field \in {"status_callback", "future"}
    /\ lock \in {"free", Scheduler}

\* an aborted run: the scheduler has written each of the four fields under
\* the lock and the abort flag outside it, while a pool thread was inside
\* _execute_step and another had returned
C27_Witness ==
    /\ sched_at = "done"
    /\ \A f \in SharedState :
          [thread |-> Scheduler, field |-> f, held |-> TRUE] \in writes
    /\ [thread |-> Scheduler, field |-> AbortFlag, held |-> FALSE] \in writes
    /\ \E t \in PoolThreads :
          /\ [thread |-> t, field |-> "future", held |-> FALSE] \in writes
          /\ \E u \in PoolThreads : thread_at[u] = "102"

\* ------------------------------------------- the run-parallel engine
\* every dependency of `n` has terminated
DependenciesTerminated(n) ==
    \A d \in DependsOn(bytecode, n) : d \in completed \cup failed

\* C30: in ParallelRuntime.execute the failure of a step with an on_error
\* handler does not abort the workflow, and the dependents of the failed
\* step proceed: when execute returns from a run that was not aborted, every
\* step whose dependencies have all terminated was submitted and has run.
C30_RuntimeDependentsProceed ==
    /\ cancelled => \E s \in failed : ~HasHandler(s)
    /\ (pc = "done" /\ ~cancelled)
       => \A n \in Steps :
             DependenciesTerminated(n)
             => submits[n] = 1 /\ n \in completed \cup failed

\* C31: ParallelRuntime.execute returns True only if all steps succeeded:
\* on every IR list, also one with a dependency that is not a declared step
\* or with a cycle next to ready steps, a True result means that every step
\* was executed and is in `completed`.
C31_TrueMeansAllCompleted ==
    (pc = "done" /\ result)
    => \A s \in Steps : s \in completed /\ calls[s] > 0

\* ------------------------------------------ the unresolved counters
\* this step of the run takes the counter of n to zero
ReachesZero(n) == indeg[n] > 0 /\ indeg'[n] = 0

\* C32: for bytecode with resolved dependencies, in every state of the
\* scheduler loop indeg[n] is not negative and is the number of entries of
\* n.depends_on whose completion (success or handled failure) the scheduler
\* has not processed yet; a step is submitted exactly at the transition that
\* takes its counter to 0 (the initial ready steps when the graph is built),
\* and the counter of a submitted step is never decremented again.
C32_CounterCountsUnprocessed ==
    /\ [](pc # "start"
            => \A n \in Steps : indeg[n] >= 0 /\ indeg[n] = Unresolved(n))
    /\ [][(pc = "start" /\ pc' = "loop")
            => \A n \in Steps : submits'[n] = IF indeg'[n] = 0 THEN 1 ELSE 0]_vars
    /\ [][pc # "start"
            => \A n \in Steps :
                  submits'[n] = IF ReachesZero(n) THEN submits[n] + 1
                                ELSE submits[n]]_vars
    /\ [][\A n \in Steps : submits[n] > 0 => indeg'[n] = indeg[n]]_vars

\* a step that names one step twice and another once: the handled failure of
\* the first has taken two off its counter, the last entry is still open
C32_Witness ==
    /\ pc = "wait"
    /\ \E n \in Steps :
          /\ Len(bytecode[n].depends_on) = 3
          /\ indeg[n] = 1
          /\ submits[n] = 0
          /\ \E d \in failed :
                /\ Handled(d)
                /\ Occurrences(bytecode[n].depends_on, d) = 2

\* ------------------------------------- status events and scheduler state
Emitted(s, status) == status \in Range(events[s])

\* C33 as stated: when execute returns, in aborted and cancelled runs too,
\* every step with a SUCCEEDED event is in `completed` and every step with a
\* FAILED event is in `failed`.
C33_EventsAgreeWithState ==
    pc = "done"
    => \A s \in Steps :
          /\ Emitted(s, "succeeded") => s \in completed
          /\ Emitted(s, "failed") => s \in failed

\* C33, amended: the events of the steps in `completed` and `failed` always
\* agree with the set they are in; every terminal event is matched by the
\* sets when the run was neither aborted nor cancelled, and in an aborted or
\* cancelled run a step with a terminal event outside both sets is one whose
\* finished future the scheduler did not process.
C33_EventsAgreeUnlessStopped ==
    /\ \A s \in completed : events[s] = RunSucceeded
    /\ \A s \in failed : events[s] = RunFailed
    /\ RanToEnd
       => \A s \in Steps :
             /\ Emitted(s, "succeeded") => s \in completed
             /\ Emitted(s, "failed") => s \in failed
    /\ pc = "done"
       => \A s \in Steps \ (completed \cup failed) :
             (Emitted(s, "succeeded") \/ Emitted(s, "failed"))
             => /\ fut[s] = "FINISHED"
                /\ exitAt \in {213, 225}
                /\ fresult[s] = Emitted(s, "succeeded")

\* a run that came to its end with a step in `completed` and a step in
\* `failed`, each with its terminal event
C33_Witness ==
    /\ RanToEnd
    /\ \E s \in completed : \E f \in failed :
          /\ events[s] = RunSucceeded
          /\ events[f] = RunFailed
          /\ calls[f] = 2

\* ------------------------------------------------------------ liveness
\* execute has returned and every step was submitted and has terminated
AllTerminated ==
    /\ pc = "done"
    /\ completed \cup failed = Steps
    /\ \A s \in Steps : submits[s] = 1 /\ fut[s] = "FINISHED"

\* C34: on acyclic bytecode with resolved dependencies, when every sandbox
\* invocation returns, the cancel signal is never set and every failing step
\* has an on_error handler, every step is eventually submitted and reaches
\* `completed` or `failed`, and execute returns with completed \cup failed
\* equal to the set of all steps.
C34_EveryStepTerminates == <>[]AllTerminated

\* the run is over, every step has terminated, one of them by a handled
\* failure after which a dependent ran
C34_Witness ==
    /\ AllTerminated
    /\ Aborters = {}
    /\ \E f \in failed : \E d \in Steps :
          f \in Range(bytecode[d].depends_on) /\ calls[d] > 0

\* -------------------------------------------- termination of stopped runs
\* execute has returned failure
ReturnedFailure == pc = "done" /\ ~result

\* some submitted step has not been processed by the scheduler yet
WorkOutstanding == running_futures # {} \/ (pc = "start" /\ Steps # {})

DependenciesFinished(n) ==
    \A d \in DependsOn(bytecode, n) :
        fut[d] = "FINISHED" /\ (fresult[d] \/ Handled(d))

\* the running steps whose completion the scheduler is waiting for: it is
\* inside as_completed and no future of the snapshot has finished
WaitsFor ==
    IF pc = "wait" /\ \A s \in snap : fut[s] # "FINISHED"
    THEN {s \in snap : fut[s] = "RUNNING"}
    ELSE {}

\* C36: the scheduler waits for any one worker and then processes it, so a
\* step whose dependencies' workers have all finished is submitted without
\* the scheduler having to wait for a still running step that is not one of
\* its transitive dependencies.
C36_PromptDispatch ==
    \A n \in Steps :
        (submits[n] = 0 /\ DependenciesFinished(n) /\ ~StopRequested)
        => WaitsFor \subseteq TransitiveDeps(bytecode, n)

\* ------------------------------------------------------ sequential Runtime
StateOf(i) == run_state[ordered_ir[i].step]

RunsOf(i) == sandbox_runs[ordered_ir[i].step]

\* C37: Runtime.execute runs the IR in list order and stops at the first step
\* whose retries + 1 attempts all fail, with or without on_error: at most one
\* step is FAILED, every step before it is OK, every step after it is PENDING
\* and was never run, and execute returns True exactly when every step is OK.
C37_SequentialStopsAtFirstFailure ==
    /\ Cardinality({i \in DOMAIN ordered_ir : StateOf(i) = "FAILED"}) <= 1
    /\ \A i \in DOMAIN ordered_ir :
         /\ StateOf(i) = "FAILED" =>
              /\ RunsOf(i) = ordered_ir[i].retries + 1
              /\ \A j \in DOMAIN ordered_ir :
                   /\ j < i => StateOf(j) = "OK"
                   /\ j > i => StateOf(j) = "PENDING" /\ RunsOf(j) = 0
         /\ RunsOf(i) > 0 => \A j \in 1..(i - 1) : StateOf(j) = "OK"
         /\ RunsOf(i) <= ordered_ir[i].retries + 1
    /\ returned # "unset" =>
         (returned = "True" <=> \A i \in DOMAIN ordered_ir : StateOf(i) = "OK")

\* a step with on_error failed after a step that succeeded, the step after
\* it was left alone and execute returned False
C37_Witness ==
    /\ Len(ordered_ir) = 3
    /\ ordered_ir[2].on_error # NoHandler
    /\ ordered_ir[2].retries = MaxRetries
    /\ StateOf(1) = "OK"
    /\ StateOf(2) = "FAILED"
    /\ StateOf(3) = "PENDING"
    /\ returned = "False"

====
